---- MODULE Spec2Model ----
(***************************************************************************)
(* Model of ralphy's task execution orchestrator:                          *)
(*   - ModelFallbackManager (cli/src/execution/model-fallback.ts 53-216)   *)
(*   - runSequential        (cli/src/execution/model-fallback.ts 301-709)  *)
(* Error messages are sequences of case-folded word tokens; a pattern      *)
(* matches a message when its tokens occur contiguously in the message.    *)
(***************************************************************************)
EXTENDS Integers, Sequences, FiniteSets, TLC

(***************************************************************************)
(* Bounds of the model.                                                    *)
(***************************************************************************)
\* Date.now() ranges over 1..MaxTime (abstract time units).
MaxTime == 4
\* config.retryInterval in the same time units (5 minutes in the defaults).
RetryInterval == 2
\* Cap on state.rateLimitCount in the manager driver.
MaxRateLimitCount == 3

\* Number of tasks in the backlog.
NumTasks == 3

\* The largest worker pool (--max-parallel) and the number of parallel groups.
MaxParallel == 2

NumGroups == 2

\* The largest number of promptForUserInput calls of a process.
MaxPrompts == 3

\* The submitInput calls, the waitForInput calls and the processChatQueue
\* instances running at a time.
MaxSubmits == 3

MaxWaits == 2

MaxDrains == 2
\* Number of runs (process starts) over the same backlog and deferred store.
MaxRuns == 3
\* options.maxRetries ranges over 1..MaxRetriesOpt.
MaxRetriesOpt == 2
\* options.maxIterations ranges over 0..MaxIterationsOpt (0: no cap).
MaxIterationsOpt == 2
\* Cap on the loop counter `iteration` within one run.
IterationCap == 4
\* Number of chat messages the user submits during a run.
MaxMessages == 2

\* null for a timestamp (FallbackState.fallbackStartTime / lastRateLimitTime).
NULL == -1

\* config.primary / config.fallback model identifiers, and "no model" (null).
Primary == "primary"
Fallback == "fallback"
NoModel == "none"
\* A model id that is neither the primary nor the fallback one.
OtherModel == "other"

(***************************************************************************)
(* Error messages.                                                         *)
(***************************************************************************)
E_RATE == <<"rate", "limit", "exceeded">>
E_429 == <<"http", "429">>
E_CAPACITY == <<"at", "capacity">>
E_NETWORK == <<"network", "timeout">>
E_AUTH == <<"authentication", "failed">>
E_AUTH_BUSY == <<"authentication", "service", "temporarily", "unavailable">>
E_API == <<"api_error", "server", "overloaded">>
E_CRASH == <<"segmentation", "fault">>
E_EMPTY == <<>>
\* `aiResult.error || "Unknown error"` (line 609)
E_UNKNOWN == <<"unknown", "error">>

\* TRUE iff the tokens of pat occur contiguously in msg (RegExp.test of a literal).
Matches(pat, msg) ==
    \E i \in 1..(Len(msg) - Len(pat) + 1) :
        \A j \in 1..Len(pat) : msg[i + j - 1] = pat[j]

\* TRUE iff a occurs in msg and b occurs somewhere after it (/a.*b/).
MatchesGap(a, b, msg) ==
    \E i \in 1..Len(msg) : \E k \in 1..Len(msg) :
        /\ i + Len(a) - 1 <= Len(msg)
        /\ k >= i + Len(a)
        /\ k + Len(b) - 1 <= Len(msg)
        /\ \A j \in 1..Len(a) : msg[i + j - 1] = a[j]
        /\ \A j \in 1..Len(b) : msg[k + j - 1] = b[j]

rateLimitPatterns ==
    { <<"rate", "limit">>, <<"too", "many", "requests">>, <<"429">>,
      <<"quota", "exceeded">>, <<"overloaded">>, <<"capacity">>,
      <<"temporarily", "unavailable">>, <<"resource", "exhausted">> }

IsRateLimitError(error) ==
    \/ \E p \in rateLimitPatterns : Matches(p, error)
    \/ MatchesGap(<<"api_error">>, <<"overloaded">>, error)

(***************************************************************************)
(* ModelFallbackManager: pure transition functions on the FallbackState.   *)
(***************************************************************************)
InitialState ==
    [ inFallback |-> FALSE,
      fallbackStartTime |-> NULL,
      lastRateLimitTime |-> NULL,
      rateLimitCount |-> 0 ]

\* Mutant: the return to Primary keeps the count of rate-limit errors.
ResetTorimary_KeepCount(st) ==
    [ st EXCEPT !.inFallback = FALSE,
                !.fallbackStartTime = NULL ]

ResetTorimary(st) ==
    [ st EXCEPT !.inFallback = FALSE,
                !.fallbackStartTime = NULL,
                !.rateLimitCount = 0 ]

\* Mutant: the retry interval is never honoured (no optimistic retry).
GetCurrentModel_NoRevert(st, t) ==
    [ model |-> IF st.inFallback THEN Fallback ELSE Primary, state |-> st ]

\* getCurrentModel() at time t: the model returned and the state afterwards.
\* `if (this.state.fallbackStartTime)` is a truthiness test: null and 0 fail it.
GetCurrentModel(st, t) ==
    IF ~st.inFallback
    THEN [ model |-> Primary, state |-> st ]
    ELSE IF st.fallbackStartTime # NULL /\ st.fallbackStartTime # 0
         THEN IF t - st.fallbackStartTime >= RetryInterval
              THEN [ model |-> Primary, state |-> ResetTorimary(st) ]
              ELSE [ model |-> Fallback, state |-> st ]
         ELSE [ model |-> Fallback, state |-> st ]

\* getStatus() at time t, the clock counting whole minutes: the status
\* returned and the state afterwards (getCurrentModel is called first).
GetStatus(st, t) ==
    LET r == GetCurrentModel(st, t)
        s1 == r.state
        timed == s1.inFallback /\ s1.fallbackStartTime # NULL
                     /\ s1.fallbackStartTime # 0
        remaining == IF timed THEN RetryInterval - (t - s1.fallbackStartTime) ELSE 0
    IN [ currentModel |-> r.model,
         inFallback |-> s1.inFallback,
         minutesUntilRetry |-> IF timed /\ remaining > 0 THEN remaining ELSE NULL,
         state |-> s1 ]

\* Mutant: every rate-limit error asks for a retry, also while in Fallback.
HandleError_AlwaysRetry(st, error, t) ==
    IF ~IsRateLimitError(error)
    THEN [ shouldRetry |-> FALSE, newModel |-> NoModel, state |-> st ]
    ELSE [ shouldRetry |-> TRUE, newModel |-> Fallback,
           state |-> [ st EXCEPT !.rateLimitCount = @ + 1,
                                 !.lastRateLimitTime = t,
                                 !.inFallback = TRUE,
                                 !.fallbackStartTime =
                                     IF st.inFallback THEN @ ELSE t ] ]

\* Mutant: the transition to Fallback forgets to stamp fallbackStartTime.
HandleError_NoStamp(st, error, t) ==
    IF ~IsRateLimitError(error)
    THEN [ shouldRetry |-> FALSE, newModel |-> NoModel, state |-> st ]
    ELSE LET s1 == [ st EXCEPT !.rateLimitCount = @ + 1,
                               !.lastRateLimitTime = t ]
         IN  IF ~s1.inFallback
             THEN [ shouldRetry |-> TRUE, newModel |-> Fallback,
                    state |-> [ s1 EXCEPT !.inFallback = TRUE ] ]
             ELSE [ shouldRetry |-> FALSE, newModel |-> NoModel, state |-> s1 ]

\* Mutant: a rate-limit error in Fallback restarts the fallback timer.
HandleError_Restamp(st, error, t) ==
    IF ~IsRateLimitError(error)
    THEN [ shouldRetry |-> FALSE, newModel |-> NoModel, state |-> st ]
    ELSE LET s1 == [ st EXCEPT !.rateLimitCount = @ + 1,
                               !.lastRateLimitTime = t ]
         IN  IF ~s1.inFallback
             THEN [ shouldRetry |-> TRUE, newModel |-> Fallback,
                    state |-> [ s1 EXCEPT !.inFallback = TRUE,
                                          !.fallbackStartTime = t ] ]
             ELSE [ shouldRetry |-> FALSE, newModel |-> NoModel,
                    state |-> [ s1 EXCEPT !.fallbackStartTime = t ] ]

\* handleError(error) at time t: the returned pair and the state afterwards.
HandleError(st, error, t) ==
    IF ~IsRateLimitError(error)
    THEN [ shouldRetry |-> FALSE, newModel |-> NoModel, state |-> st ]
    ELSE LET s1 == [ st EXCEPT !.rateLimitCount = @ + 1,
                               !.lastRateLimitTime = t ]
         IN  IF ~s1.inFallback
             THEN [ shouldRetry |-> TRUE, newModel |-> Fallback,
                    state |-> [ s1 EXCEPT !.inFallback = TRUE,
                                          !.fallbackStartTime = t ] ]
             ELSE [ shouldRetry |-> FALSE, newModel |-> NoModel, state |-> s1 ]

\* Mutant: the counter is reset only together with the return to Primary.
RecordSuccess_NoCountReset(st, model) ==
    IF model = Primary /\ st.inFallback THEN ResetTorimary(st) ELSE st

\* recordSuccess(model): the state afterwards.
RecordSuccess(st, model) ==
    LET s1 == IF model = Primary /\ st.inFallback THEN ResetTorimary(st) ELSE st
    IN  [ s1 EXCEPT !.rateLimitCount = 0 ]

(***************************************************************************)
(* RetryPolicy classification (execution/retry.ts).                        *)
(***************************************************************************)
retryablePatterns ==
    { <<"rate", "limit">>, <<"429">>, <<"quota", "exceeded">>, <<"overloaded">>,
      <<"temporarily", "unavailable">>, <<"resource", "exhausted">>,
      <<"network", "timeout">> }

fatalPatterns ==
    { <<"authentication">>, <<"invalid", "credentials">>,
      <<"permission", "denied">>, <<"command", "not", "found">> }

IsRetryableError(error) == \E p \in retryablePatterns : Matches(p, error)

IsFatalError(error) == \E p \in fatalPatterns : Matches(p, error)

(***************************************************************************)
(* DeferredTaskTracker (execution/deferred.ts): the persisted per-task     *)
(* counter; 0 stands for "no record".                                      *)
(***************************************************************************)
Tasks == 1..NumTasks

\* recordDeferredTask: the store afterwards (the call returns its new count).
RecordDeferredTask(d, t) == [ d EXCEPT ![t] = @ + 1 ]

\* clearDeferredTask: the store afterwards.
ClearDeferredTask(d, t) == [ d EXCEPT ![t] = 0 ]

(***************************************************************************)
(* TaskSource: the backlog in order; a task is unchecked until marked.     *)
(***************************************************************************)
NoTask == 0

\* getNextTask(): the first unchecked task of the backlog, or null.
GetNextTask(done) ==
    IF \E t \in Tasks : t \notin done
    THEN CHOOSE t \in Tasks : t \notin done /\ \A u \in Tasks : u \notin done => t <= u
    ELSE NoTask

\* markComplete(id): the set of checked tasks afterwards.
MarkComplete(done, t) == done \cup { t }

(***************************************************************************)
(* runSequential: the decision taken on a failed task (lines 609-649 for a *)
(* failed AIResult, lines 652-691 for a caught exception).                 *)
(***************************************************************************)
\* Mutant: the unknown branch forgets to stop the run.
FailureBranch_UnknownContinues(errMsg, d, t, maxRetries) ==
    IF IsRetryableError(errMsg)
    THEN LET d1 == RecordDeferredTask(d, t) IN
         IF d1[t] >= maxRetries
         THEN [ branch |-> "exhausted", deferred |-> ClearDeferredTask(d1, t),
                abort |-> FALSE, return |-> FALSE, mark |-> FALSE ]
         ELSE [ branch |-> "deferred", deferred |-> d1,
                abort |-> TRUE, return |-> FALSE, mark |-> FALSE ]
    ELSE IF IsFatalError(errMsg)
    THEN [ branch |-> "fatal", deferred |-> d,
           abort |-> FALSE, return |-> TRUE, mark |-> FALSE ]
    ELSE [ branch |-> "unknown", deferred |-> ClearDeferredTask(d, t),
           abort |-> FALSE, return |-> FALSE, mark |-> FALSE ]

\* Mutant: the fatal branch sets the abort flag but does not return at once.
FailureBranch_FatalNoReturn(errMsg, d, t, maxRetries) ==
    IF IsRetryableError(errMsg)
    THEN LET d1 == RecordDeferredTask(d, t) IN
         IF d1[t] >= maxRetries
         THEN [ branch |-> "exhausted", deferred |-> ClearDeferredTask(d1, t),
                abort |-> FALSE, return |-> FALSE, mark |-> FALSE ]
         ELSE [ branch |-> "deferred", deferred |-> d1,
                abort |-> TRUE, return |-> FALSE, mark |-> FALSE ]
    ELSE IF IsFatalError(errMsg)
    THEN [ branch |-> "fatal", deferred |-> d,
           abort |-> FALSE, return |-> FALSE, mark |-> FALSE ]
    ELSE [ branch |-> "unknown", deferred |-> ClearDeferredTask(d, t),
           abort |-> TRUE, return |-> FALSE, mark |-> FALSE ]

\* Mutant: a task that exhausted its deferrals is checked off.
FailureBranch_MarkExhausted(errMsg, d, t, maxRetries) ==
    IF IsRetryableError(errMsg)
    THEN LET d1 == RecordDeferredTask(d, t) IN
         IF d1[t] >= maxRetries
         THEN [ branch |-> "exhausted", deferred |-> ClearDeferredTask(d1, t),
                abort |-> FALSE, return |-> FALSE, mark |-> TRUE ]
         ELSE [ branch |-> "deferred", deferred |-> d1,
                abort |-> TRUE, return |-> FALSE, mark |-> FALSE ]
    ELSE IF IsFatalError(errMsg)
    THEN [ branch |-> "fatal", deferred |-> d,
           abort |-> FALSE, return |-> TRUE, mark |-> FALSE ]
    ELSE [ branch |-> "unknown", deferred |-> ClearDeferredTask(d, t),
           abort |-> TRUE, return |-> FALSE, mark |-> FALSE ]

\* Mutant: exhaustion stops the run, a deferral lets it continue (swapped).
FailureBranch_Swapped(errMsg, d, t, maxRetries) ==
    IF IsRetryableError(errMsg)
    THEN LET d1 == RecordDeferredTask(d, t) IN
         IF d1[t] >= maxRetries
         THEN [ branch |-> "exhausted", deferred |-> ClearDeferredTask(d1, t),
                abort |-> TRUE, return |-> FALSE, mark |-> FALSE ]
         ELSE [ branch |-> "deferred", deferred |-> d1,
                abort |-> FALSE, return |-> FALSE, mark |-> FALSE ]
    ELSE IF IsFatalError(errMsg)
    THEN [ branch |-> "fatal", deferred |-> d,
           abort |-> FALSE, return |-> TRUE, mark |-> FALSE ]
    ELSE [ branch |-> "unknown", deferred |-> ClearDeferredTask(d, t),
           abort |-> TRUE, return |-> FALSE, mark |-> FALSE ]

\* Mutant: the deferral record is not cleared when the deferrals are exhausted.
FailureBranch_KeepCounter(errMsg, d, t, maxRetries) ==
    IF IsRetryableError(errMsg)
    THEN LET d1 == RecordDeferredTask(d, t) IN
         IF d1[t] >= maxRetries
         THEN [ branch |-> "exhausted", deferred |-> d1,
                abort |-> FALSE, return |-> FALSE, mark |-> FALSE ]
         ELSE [ branch |-> "deferred", deferred |-> d1,
                abort |-> TRUE, return |-> FALSE, mark |-> FALSE ]
    ELSE IF IsFatalError(errMsg)
    THEN [ branch |-> "fatal", deferred |-> d,
           abort |-> FALSE, return |-> TRUE, mark |-> FALSE ]
    ELSE [ branch |-> "unknown", deferred |-> ClearDeferredTask(d, t),
           abort |-> TRUE, return |-> FALSE, mark |-> FALSE ]

\* Mutant: a deferral (counter below maxRetries) does not stop the run.
FailureBranch_DeferredContinues(errMsg, d, t, maxRetries) ==
    IF IsRetryableError(errMsg)
    THEN LET d1 == RecordDeferredTask(d, t) IN
         IF d1[t] >= maxRetries
         THEN [ branch |-> "exhausted", deferred |-> ClearDeferredTask(d1, t),
                abort |-> FALSE, return |-> FALSE, mark |-> FALSE ]
         ELSE [ branch |-> "deferred", deferred |-> d1,
                abort |-> FALSE, return |-> FALSE, mark |-> FALSE ]
    ELSE IF IsFatalError(errMsg)
    THEN [ branch |-> "fatal", deferred |-> d,
           abort |-> FALSE, return |-> TRUE, mark |-> FALSE ]
    ELSE [ branch |-> "unknown", deferred |-> ClearDeferredTask(d, t),
           abort |-> TRUE, return |-> FALSE, mark |-> FALSE ]

\* The branch taken for error message errMsg of task t: the deferred store
\* afterwards, whether abortDueToRetryableFailure is set, whether the function
\* returns at once, and whether markComplete is called (never).  In every
\* branch result.tasksFailed is incremented.
FailureBranch(errMsg, d, t, maxRetries) ==
    IF IsRetryableError(errMsg)
    THEN LET d1 == RecordDeferredTask(d, t) IN
         IF d1[t] >= maxRetries
         THEN [ branch |-> "exhausted", deferred |-> ClearDeferredTask(d1, t),
                abort |-> FALSE, return |-> FALSE, mark |-> FALSE ]
         ELSE [ branch |-> "deferred", deferred |-> d1,
                abort |-> TRUE, return |-> FALSE, mark |-> FALSE ]
    ELSE IF IsFatalError(errMsg)
    THEN [ branch |-> "fatal", deferred |-> d,
           abort |-> FALSE, return |-> TRUE, mark |-> FALSE ]
    ELSE [ branch |-> "unknown", deferred |-> ClearDeferredTask(d, t),
           abort |-> TRUE, return |-> FALSE, mark |-> FALSE ]


(***************************************************************************)
(* State.                                                                  *)
(***************************************************************************)
VARIABLES
    now,        \* Date.now()
    state,      \* ModelFallbackManager.state (FallbackState)
    lastCall,   \* the last call made on the manager by the driver, with its result
    streak,     \* consecutive rate-limit handleError calls since Primary
    pc,         \* position of runSequential
    opts,       \* ExecutionOptions of the runs
    runs,       \* number of runs started so far
    result,     \* ExecutionResult of the current run
    iteration,  \* loop counter of the current run
    abortDueToRetryableFailure,
    task,       \* the task of the current iteration (NoTask: none)
    attempt,    \* withRetry's attempt number for the current task
    modelToUse, \* model requested from the engine in the current attempt
    aiResult,   \* AIResult of the current iteration
    errorMsg,   \* message of the exception caught at line 651
    complete,   \* TaskSource: the tasks marked complete (persists across runs)
    deferred,   \* DeferredTaskTracker: per-task counter (persists across runs)
    hist,       \* history of the run, read by the properties only
    branch,     \* the git branch checked out in workDir: "base" or "task"
    chat,       \* logStore.inputQueue, chat engine calls, collectedFeedback
    cli,        \* runLoop (cli/commands/run.ts) and the TUI beside it
    script,     \* ralphy-clean-start.sh: its main loop
    pool,       \* the parallel executor: tasks, workers, merges
    prompt,     \* ui/input.ts: stdin, its listeners and the prompts
    store,      \* logStore: input queue, input resolver, chat drains
    tui         \* tui/index.tsx: tuiState, the startTui calls and renderers

mgrVars == << now, state, lastCall, streak >>

runVars ==
    << pc, opts, runs, result, iteration, abortDueToRetryableFailure, task,
       attempt, modelToUse, aiResult, errorMsg, complete, deferred, hist,
       branch, chat, cli, script, pool, prompt, store, tui >>

vars == << mgrVars, runVars >>

\* Messages handed to handleError.
Errors ==
    { E_RATE, E_429, E_CAPACITY, E_NETWORK, E_AUTH, E_AUTH_BUSY, E_API,
      E_CRASH, E_EMPTY }

\* Models handed to recordSuccess.
Models == { Primary, Fallback, OtherModel }

NoCall ==
    [ op |-> "none", error |-> E_EMPTY, model |-> NoModel, pre |-> InitialState,
      at |-> 0, retModel |-> NoModel, shouldRetry |-> FALSE,
      minutesUntilRetry |-> NULL ]

NoStreak == [ calls |-> 0, transitions |-> 0, retries |-> 0, firstRetry |-> FALSE ]

\* Time passes.
Tick ==
    /\ now < MaxTime
    /\ now' = now + 1

MgrTick ==
    /\ Tick
    /\ UNCHANGED << state, lastCall, streak, runVars >>

\* A caller invokes getCurrentModel().
CallGetCurrentModel ==
    LET r == GetCurrentModel(state, now) IN
    /\ state' = r.state
    /\ lastCall' = [ NoCall EXCEPT !.op = "getCurrentModel", !.pre = state,
                                   !.at = now, !.retModel = r.model ]
    /\ streak' = IF state.inFallback /\ ~r.state.inFallback THEN NoStreak ELSE streak
    /\ UNCHANGED << now, runVars >>

\* A caller invokes getStatus().
CallGetStatus ==
    LET r == GetStatus(state, now) IN
    /\ state' = r.state
    /\ lastCall' = [ NoCall EXCEPT !.op = "getStatus", !.pre = state,
                                   !.at = now, !.retModel = r.currentModel,
                                   !.minutesUntilRetry = r.minutesUntilRetry ]
    /\ streak' = IF state.inFallback /\ ~r.state.inFallback THEN NoStreak ELSE streak
    /\ UNCHANGED << now, runVars >>

\* A caller invokes handleError(error).
CallHandleError(error) ==
    LET r == HandleError(state, error, now)
        rl == IsRateLimitError(error)
        counted == rl /\ (streak.calls > 0 \/ ~state.inFallback)
    IN
    /\ rl => state.rateLimitCount < MaxRateLimitCount
    /\ state' = r.state
    /\ lastCall' = [ NoCall EXCEPT !.op = "handleError", !.error = error,
                                   !.pre = state, !.at = now,
                                   !.retModel = r.newModel,
                                   !.shouldRetry = r.shouldRetry ]
    /\ streak' =
         IF ~counted THEN streak
         ELSE [ calls |-> streak.calls + 1,
                transitions |-> streak.transitions
                    + (IF ~state.inFallback /\ r.state.inFallback THEN 1 ELSE 0),
                retries |-> streak.retries + (IF r.shouldRetry THEN 1 ELSE 0),
                firstRetry |-> IF streak.calls = 0 THEN r.shouldRetry
                               ELSE streak.firstRetry ]
    /\ UNCHANGED << now, runVars >>

\* A caller invokes recordSuccess(model).
CallRecordSuccess(model) ==
    /\ state' = RecordSuccess(state, model)
    /\ lastCall' = [ NoCall EXCEPT !.op = "recordSuccess", !.model = model,
                                   !.pre = state, !.at = now ]
    /\ streak' = NoStreak
    /\ UNCHANGED << now, runVars >>

(***************************************************************************)
(* runSequential.                                                          *)
(***************************************************************************)
NoResult ==
    [ success |-> FALSE, error |-> E_EMPTY, inputTokens |-> 0, outputTokens |-> 0,
      task |-> NoTask, iteration |-> 0 ]

ZeroResult ==
    [ tasksCompleted |-> 0, tasksFailed |-> 0,
      totalInputTokens |-> 0, totalOutputTokens |-> 0 ]

\* What the engine may return for a task: a success with token counts, or a
\* failure with an error message (E_EMPTY: `error` undefined).
EngineResults ==
    { [ NoResult EXCEPT !.success = TRUE, !.inputTokens = 100,
                        !.outputTokens = 50 ] }
    \cup
    { [ NoResult EXCEPT !.error = e, !.inputTokens = 7, !.outputTokens = 3 ] :
          e \in { E_RATE, E_CAPACITY, E_NETWORK, E_AUTH, E_AUTH_BUSY, E_CRASH,
                  E_EMPTY } }

\* Messages of exceptions thrown by the engine call itself.
ThrowErrors == { E_NETWORK, E_AUTH, E_CRASH }

\* Messages of exceptions thrown by syncPrdToIssue / createPullRequest.
PostErrors == { E_NETWORK, E_AUTH, E_CRASH }

AllOptions ==
    [ maxRetries : 1..MaxRetriesOpt,
      maxIterations : 0..MaxIterationsOpt,
      dryRun : BOOLEAN,
      streaming : BOOLEAN,        \* engine.executeStreaming is defined
      modelOverride : { NoModel, OtherModel },
      syncIssue : BOOLEAN,        \* syncIssue && options.prdFile
      createPr : BOOLEAN,         \* createPr && branch && baseBranch
      branchPerTask : BOOLEAN,    \* branchPerTask && baseBranch
      interactive : BOOLEAN ]     \* process.stdin.isTTY

\* Runs without task branches, with stdin not a terminal.
OptionSets == { o \in AllOptions : ~o.branchPerTask /\ ~o.interactive }

\* logStore.inputQueue (its length), the messages submitted so far, the chat
\* engine calls in flight (the awaited drain's one, and those of the drains
\* started by the streaming progress callback), and collectedFeedback (its
\* length).
\* fuIn / fuOut: the tokens of the successful follow-up results of the run.
NoChat ==
    [ queue |-> 0, sent |-> 0, drain |-> FALSE, bg |-> 0, feedback |-> 0,
      fuIn |-> 0, fuOut |-> 0 ]

NoHist ==
    [ branch |-> "none",       \* outcome branch of the current iteration
      prevBranch |-> "none",   \* outcome branch of the previous iteration
      origin |-> "none",       \* where the handled failure came from
      atDispatch |-> ZeroResult,   \* result when the task was dispatched
      deferredBefore |-> 0,    \* the task's counter at dispatch / when its failure was handled
      failCount |-> 0,         \* the task's retryable failures, this one included
      stoppedBy |-> "none",    \* the branch that decided to stop the run
      afterStop |-> FALSE,     \* getNextTask or a task engine call after that
      okCount |-> 0,           \* successful AIResults obtained for tasks
      okIn |-> 0,              \* their inputTokens, summed
      okOut |-> 0,             \* their outputTokens, summed
      engineFailed |-> FALSE,  \* a task engine call failed or threw
      postFails |-> 0,         \* failures handled for a step after markComplete
      recorded |-> NoModel ]   \* the model handed to recordSuccess in this iteration

\* History kept across runs: markComplete calls per task, a markComplete call
\* made by a failure branch, and the retryable failures of each task since it
\* was last reported failed (counted up to MaxRetriesOpt + 1).
NoLedger ==
    [ markCalls |-> [ t \in Tasks |-> 0 ],
      badMark |-> FALSE,
      retryableFails |-> [ t \in Tasks |-> 0 ] ]

\* runLoop before it is called: no TUI, no pending promise job, no exit code.
NoRunLoop ==
    [ pc |-> "off",
      useTui |-> FALSE,        \* shouldUseTui() && !dryRun
      active |-> FALSE,        \* tuiState.active
      exitResolver |-> FALSE,  \* tuiState.exitResolver is set
      jobs |-> << >>,          \* promise jobs queued, in order
      code |-> 0,              \* the argument of the pending exitWithError
      flushed |-> FALSE,       \* taskSource.flush() has been called
      exitCode |-> NULL ]      \* the code process.exit was called with

\* ralphy-clean-start.sh before it is started.
NoScript ==
    [ pc |-> "off",
      engine |-> "opencode",   \* ENGINE
      model |-> "gemini",      \* OPENCODE_MODEL: "gemini" (FALLBACK_MODEL), "opus"
                               \* (PREFERRED_MODEL) or "custom"
      argsModel |-> "none",    \* the model after --model in RALPHY_ARGS, if any
      folder |-> FALSE,        \* PRD_FILE is a folder
      cap |-> 0,               \* --max-iterations handed on to ralphy (0: none)
      unchecked |-> 0,         \* unchecked tasks in the PRD
      started |-> 0,           \* tasks started by the running ralphy
      failed |-> 0,            \* tasksFailed of the running ralphy
      stop |-> FALSE,          \* the running ralphy has decided to stop
      exitCode |-> 0,          \* exit code of the last ralphy
      slept |-> 0,             \* the last sleep of the loop, in seconds
      status |-> NULL ]        \* exit status of the script

\* tuiState as created (active false, no resolver, no dispose function), no
\* startTui or stopTui call made yet.
NoTui ==
    [ active |-> FALSE,
      exitResolver |-> 0,      \* the startTui call whose promise it resolves (0: null)
      dispose |-> 0,           \* the startTui call whose renderer it disposes (0: null)
      calls |-> << >>,         \* the startTui calls, in order
      stops |-> 0,             \* stopTui calls made
      exited |-> FALSE,        \* process.exit was called
      last |-> "none",         \* the exported function called last
      before |-> << FALSE, 0, 0 >> ]   \* tuiState when it was called

\* logStore (tui/stores/log.ts) as created, with no processChatQueue running.
NoStore ==
    [ inputQueue |-> << >>,    \* inputQueue(): the submissions queued
      inputResolver |-> 0,     \* inputResolver(): the promise it resolves, 0 for null
      promises |-> << >>,      \* the promises returned by waitForInput
      kinds |-> << >>,         \* the text of each submitInput call: null, empty or text
      queued |-> << >>,        \* the submissions queued so far, in order
      popped |-> << >>,        \* the submissions returned by popInputQueue, in order
      sent |-> << >>,          \* the chat engine calls: instance and submission
      drains |-> [ d \in 1..MaxDrains |-> 0 ] ]  \* the message of each instance's call

\* The terminal input of ui/input.ts before the first prompt.
NoPrompt ==
    [ flowing |-> FALSE,       \* process.stdin is resumed
      raw |-> FALSE,           \* process.stdin is in raw mode
      exited |-> FALSE,        \* process.exit() was called
      calls |-> << >> ]        \* the promptForUserInput calls made, in order

\* The parallel executor before it is called.
NoPool ==
    [ pc |-> "off",
      maxParallel |-> 1,       \* options.maxParallel
      skipMerge |-> FALSE,     \* options.skipMerge
      group |-> [ t \in Tasks |-> 1 ],  \* parallelGroup of each task
      cur |-> 0,               \* the group being processed
      st |-> [ t \in Tasks |-> "unstarted" ],
      slots |-> [ w \in 1..MaxParallel |-> NoTask ],  \* the task of each worker
      dispatched |-> << >>,    \* tasks in the order of their dispatch
      completed |-> << >>,     \* tasks in the order of their successful end
      merging |-> {},          \* branches with a merge in progress
      mergeLog |-> << >> ]     \* branches in the order their merge started

RunIdle ==
    /\ pc = "idle"
    /\ opts \in AllOptions
    /\ runs \in { 0, MaxRuns - 1 }
    /\ result = ZeroResult
    /\ iteration = 0
    /\ abortDueToRetryableFailure = FALSE
    /\ task = NoTask
    /\ attempt = 0
    /\ modelToUse = NoModel
    /\ aiResult = NoResult
    /\ errorMsg = E_EMPTY
    /\ complete = {}
    /\ deferred = [ t \in Tasks |-> 0 ]
    /\ hist = [ run |-> NoHist, all |-> NoLedger ]
    /\ branch = "base"
    /\ chat = NoChat
    /\ cli = NoRunLoop
    /\ script = NoScript
    /\ pool = NoPool
    /\ prompt = NoPrompt
    /\ store = NoStore
    /\ tui = NoTui

Init ==
    /\ now = 1
    /\ state = InitialState
    /\ lastCall = NoCall
    /\ streak = NoStreak
    /\ RunIdle
    /\ opts \in OptionSets
    /\ runs = 0

\* Mutant: once in Fallback the manager's model is taken, override or not.
ResolveModel_FallbackWins(st, t) ==
    IF opts.modelOverride # NoModel /\ ~st.inFallback
    THEN [ model |-> opts.modelOverride, state |-> st ]
    ELSE GetCurrentModel(st, t)

\* The model requested for an attempt: `modelOverride || getCurrentModel()`.
ResolveModel(st, t) ==
    IF opts.modelOverride # NoModel
    THEN [ model |-> opts.modelOverride, state |-> st ]
    ELSE GetCurrentModel(st, t)

\* runSequential is called (a new process: a fresh manager, lines 338-348).
\* The manager reads differences of Date.now() only, so the clock of a new
\* process is counted from 1 again.
StartRun ==
    /\ pc \in { "idle", "done" }
    /\ runs < MaxRuns
    /\ runs' = runs + 1
    /\ pc' = "loop"
    /\ now' = 1
    /\ state' = InitialState
    /\ result' = ZeroResult
    /\ iteration' = 0
    /\ abortDueToRetryableFailure' = FALSE
    /\ task' = NoTask
    /\ attempt' = 0
    /\ modelToUse' = NoModel
    /\ aiResult' = NoResult
    /\ errorMsg' = E_EMPTY
    /\ hist' = [ hist EXCEPT !.run = NoHist ]
    /\ chat' = [ chat EXCEPT !.feedback = 0, !.fuIn = 0, !.fuOut = 0 ]
    /\ UNCHANGED << lastCall, streak, opts, complete, deferred >>
    /\ UNCHANGED << branch, cli, script, pool, prompt, store, tui >>

\* Mutant: the cap is tested with > instead of >=.
IterationLimitReached_OffByOne == opts.maxIterations > 0 /\ iteration > opts.maxIterations

IterationLimitReached == opts.maxIterations > 0 /\ iteration >= opts.maxIterations

\* Lines 360-364: the iteration cap ends the run.
LoopIterationLimit ==
    /\ pc = "loop"
    /\ chat.queue = 0
    /\ IterationLimitReached
    /\ pc' = "done"
    /\ hist' = [ hist EXCEPT !.run.prevBranch = hist.run.branch,
                             !.run.branch = "none", !.run.origin = "none" ]
    /\ UNCHANGED << mgrVars, opts, runs, result, iteration,
                    abortDueToRetryableFailure, task, attempt, modelToUse,
                    aiResult, errorMsg, complete, deferred >>
    /\ UNCHANGED << branch, chat, cli, script, pool, prompt, store, tui >>

\* Lines 366-371: getNextTask() reports no task.
LoopNoTask ==
    /\ pc = "loop"
    /\ chat.queue = 0
    /\ ~IterationLimitReached
    /\ GetNextTask(complete) = NoTask
    /\ pc' = "done"
    /\ hist' = [ hist EXCEPT !.run.afterStop = (@ \/ hist.run.stoppedBy # "none"),
                             !.run.prevBranch = hist.run.branch,
                             !.run.branch = "none", !.run.origin = "none" ]
    /\ UNCHANGED << mgrVars, opts, runs, result, iteration,
                    abortDueToRetryableFailure, task, attempt, modelToUse,
                    aiResult, errorMsg, complete, deferred >>
    /\ UNCHANGED << branch, chat, cli, script, pool, prompt, store, tui >>

\* The history at the start of an iteration for task t.
HistAtDispatch(t) ==
    [ hist EXCEPT !.run.afterStop = (@ \/ hist.run.stoppedBy # "none"),
                  !.run.prevBranch = hist.run.branch,
                  !.run.branch = "none",
                  !.run.origin = "none",
                  !.run.atDispatch = result,
                  !.run.deferredBefore = deferred[t],
                  !.run.failCount = 0,
                  !.run.recorded = NoModel ]

\* Mutant: a skipped task is counted as completed.
LoopDryRun_Counts ==
    /\ pc = "loop"
    /\ chat.queue = 0
    /\ ~IterationLimitReached
    /\ GetNextTask(complete) # NoTask
    /\ opts.dryRun
    /\ iteration < IterationCap
    /\ iteration' = iteration + 1
    /\ branch' = IF opts.branchPerTask THEN "task" ELSE branch
    /\ task' = GetNextTask(complete)
    /\ pc' = "endIter"
    /\ result' = [ result EXCEPT !.tasksCompleted = @ + 1 ]
    /\ hist' = [ HistAtDispatch(GetNextTask(complete)) EXCEPT !.run.branch = "dryRun" ]
    /\ UNCHANGED << mgrVars, opts, runs, abortDueToRetryableFailure,
                    attempt, modelToUse, aiResult, errorMsg, complete, deferred >>
    /\ UNCHANGED << chat, cli, script, pool, prompt, store, tui >>

\* Lines 366-414 with dryRun: the task is skipped, nothing is executed.
LoopDryRun ==
    /\ pc = "loop"
    /\ chat.queue = 0
    /\ ~IterationLimitReached
    /\ GetNextTask(complete) # NoTask
    /\ opts.dryRun
    /\ iteration < IterationCap
    /\ iteration' = iteration + 1
    /\ branch' = IF opts.branchPerTask THEN "task" ELSE branch
    /\ task' = GetNextTask(complete)
    /\ pc' = "endIter"
    /\ hist' = [ HistAtDispatch(GetNextTask(complete)) EXCEPT !.run.branch = "dryRun" ]
    /\ UNCHANGED << mgrVars, opts, runs, result, abortDueToRetryableFailure,
                    attempt, modelToUse, aiResult, errorMsg, complete, deferred >>
    /\ UNCHANGED << chat, cli, script, pool, prompt, store, tui >>

\* Lines 366-427: a task is obtained and prepared; line 420 resolves the model
\* once for display.
LoopDispatch ==
    /\ pc = "loop"
    /\ chat.queue = 0
    /\ ~IterationLimitReached
    /\ GetNextTask(complete) # NoTask
    /\ ~opts.dryRun
    /\ iteration < IterationCap
    /\ iteration' = iteration + 1
    /\ branch' = IF opts.branchPerTask THEN "task" ELSE branch
    /\ task' = GetNextTask(complete)
    /\ state' = ResolveModel(state, now).state
    /\ attempt' = 1
    /\ pc' = "attempt"
    /\ hist' = HistAtDispatch(GetNextTask(complete))
    /\ UNCHANGED << now, lastCall, streak, opts, runs, result,
                    abortDueToRetryableFailure, modelToUse, aiResult, errorMsg,
                    complete, deferred >>
    /\ UNCHANGED << chat, cli, script, pool, prompt, store, tui >>

\* Mutant: a retry reuses the model resolved for the first attempt.
AttemptStart_Cached ==
    /\ pc = "attempt"
    /\ LET r == ResolveModel(state, now) IN
         /\ modelToUse' = IF attempt = 1 THEN r.model ELSE modelToUse
         /\ state' = r.state
    /\ pc' = "inflight"
    /\ hist' = [ hist EXCEPT !.run.afterStop = (@ \/ hist.run.stoppedBy # "none") ]
    /\ UNCHANGED << now, lastCall, streak, opts, runs, result, iteration,
                    abortDueToRetryableFailure, task, attempt, aiResult,
                    errorMsg, complete, deferred >>
    /\ UNCHANGED << branch, chat, cli, script, pool, prompt, store, tui >>

\* Lines 429-465 / 467: an attempt resolves its model and calls the engine.
AttemptStart ==
    /\ pc = "attempt"
    /\ LET r == ResolveModel(state, now) IN
         /\ modelToUse' = r.model
         /\ state' = r.state
    /\ pc' = "inflight"
    /\ hist' = [ hist EXCEPT !.run.afterStop = (@ \/ hist.run.stoppedBy # "none") ]
    /\ UNCHANGED << now, lastCall, streak, opts, runs, result, iteration,
                    abortDueToRetryableFailure, task, attempt, aiResult,
                    errorMsg, complete, deferred >>
    /\ UNCHANGED << branch, chat, cli, script, pool, prompt, store, tui >>

\* withRetry (execution/retry.ts) when the callback throws msg, the manager
\* being in state st: retry while attempts remain (onRetry calls
\* getCurrentModel(), line 488), else rethrow to the catch at line 651.
WithRetryThrow(msg, st) ==
    IF attempt < opts.maxRetries
    THEN /\ attempt' = attempt + 1
         /\ state' = GetCurrentModel(st, now).state
         /\ pc' = "attempt"
         /\ hist' = [ hist EXCEPT !.run.engineFailed = TRUE ]
         /\ UNCHANGED errorMsg
    ELSE /\ errorMsg' = msg
         /\ state' = st
         /\ pc' = "catch"
         /\ hist' = [ hist EXCEPT !.run.origin = "withRetry",
                                  !.run.engineFailed = TRUE ]
         /\ UNCHANGED attempt

\* withRetry returns res: it becomes aiResult (line 428).
WithRetryReturn(res, st) ==
    /\ aiResult' = [ res EXCEPT !.task = task, !.iteration = iteration ]
    /\ state' = st
    /\ pc' = "returned"
    /\ hist' = IF res.success
               THEN [ hist EXCEPT !.run.okCount = @ + 1,
                                  !.run.okIn = @ + res.inputTokens,
                                  !.run.okOut = @ + res.outputTokens ]
               ELSE [ hist EXCEPT !.run.engineFailed = TRUE ]
    /\ UNCHANGED << attempt, errorMsg >>

\* The engine call throws (lines 445 / 467).
EngineThrows(msg) ==
    /\ pc = "inflight"
    /\ WithRetryThrow(msg, state)
    /\ UNCHANGED << now, lastCall, streak, opts, runs, result, iteration,
                    abortDueToRetryableFailure, task, modelToUse, aiResult,
                    complete, deferred >>
    /\ UNCHANGED << branch, chat, cli, script, pool, prompt, store, tui >>

\* engine.executeStreaming resolves with res (lines 444-465): the result is
\* returned as it is.
StreamingReturns(res) ==
    /\ pc = "inflight"
    /\ opts.streaming
    /\ WithRetryReturn(res, state)
    /\ UNCHANGED << now, lastCall, streak, opts, runs, result, iteration,
                    abortDueToRetryableFailure, task, modelToUse,
                    complete, deferred >>
    /\ UNCHANGED << branch, chat, cli, script, pool, prompt, store, tui >>

\* engine.execute resolves with res (lines 467-482): a failure with an error
\* text goes to handleError and is thrown again when the manager asks for a
\* retry or the error is retryable.
ExecuteReturns(res) ==
    /\ pc = "inflight"
    /\ ~opts.streaming
    /\ IF ~res.success /\ res.error # E_EMPTY
       THEN LET fr == HandleError(state, res.error, now) IN
            IF (fr.shouldRetry /\ fr.newModel # NoModel) \/ IsRetryableError(res.error)
            THEN WithRetryThrow(res.error, fr.state) /\ UNCHANGED aiResult
            ELSE WithRetryReturn(res, fr.state)
       ELSE WithRetryReturn(res, state)
    /\ UNCHANGED << now, lastCall, streak, opts, runs, result, iteration,
                    abortDueToRetryableFailure, task, modelToUse,
                    complete, deferred >>
    /\ UNCHANGED << branch, chat, cli, script, pool, prompt, store, tui >>

\* The ledger after a markComplete(t) call: the call is counted, and it is
\* flagged unless it follows a successful AIResult obtained for t in this
\* iteration.
LedgerAfterMark(ledger, t) ==
    [ ledger EXCEPT
        !.markCalls[t] = @ + 1,
        !.badMark = @ \/ ~( /\ pc = "returned"
                            /\ aiResult.success
                            /\ aiResult.task = t
                            /\ aiResult.iteration = iteration ) ]

\* Mutant: the totals are set to the tokens of the last result, not added to.
HandleSuccess_Assign ==
    /\ pc = "returned"
    /\ aiResult.success
    /\ LET r == ResolveModel(state, now) IN
         state' = RecordSuccess(r.state, r.model)
    /\ result' = [ result EXCEPT
           !.totalInputTokens = aiResult.inputTokens,
           !.totalOutputTokens = aiResult.outputTokens,
           !.tasksCompleted = @ + 1 ]
    /\ complete' = MarkComplete(complete, task)
    /\ hist' = [ hist EXCEPT !.all = LedgerAfterMark(hist.all, task),
                             !.run.branch = "success",
                             !.run.recorded = ResolveModel(state, now).model ]
    /\ pc' = "sync"
    /\ UNCHANGED << now, lastCall, streak, opts, runs, iteration,
                    abortDueToRetryableFailure, task, attempt, modelToUse,
                    aiResult, errorMsg, deferred >>
    /\ UNCHANGED << branch, chat, cli, script, pool, prompt, store, tui >>

\* Lines 495-520: a successful result is recorded and the task is marked.
HandleSuccess ==
    /\ pc = "returned"
    /\ aiResult.success
    /\ LET r == ResolveModel(state, now) IN
         state' = RecordSuccess(r.state, r.model)
    /\ result' = [ result EXCEPT
           !.totalInputTokens = @ + aiResult.inputTokens,
           !.totalOutputTokens = @ + aiResult.outputTokens,
           !.tasksCompleted = @ + 1 ]
    /\ complete' = MarkComplete(complete, task)
    /\ hist' = [ hist EXCEPT !.all = LedgerAfterMark(hist.all, task),
                             !.run.branch = "success",
                             !.run.recorded = ResolveModel(state, now).model ]
    /\ pc' = "sync"
    /\ UNCHANGED << now, lastCall, streak, opts, runs, iteration,
                    abortDueToRetryableFailure, task, attempt, modelToUse,
                    aiResult, errorMsg, deferred >>
    /\ UNCHANGED << branch, chat, cli, script, pool, prompt, store, tui >>

\* Line 524: syncPrdToIssue throws.
SyncThrows(msg) ==
    /\ pc = "sync"
    /\ opts.syncIssue
    /\ errorMsg' = msg
    /\ pc' = "catch"
    /\ hist' = [ hist EXCEPT !.run.origin = "post" ]
    /\ UNCHANGED << mgrVars, opts, runs, result, iteration,
                    abortDueToRetryableFailure, task, attempt, modelToUse,
                    aiResult, complete, deferred >>
    /\ UNCHANGED << branch, chat, cli, script, pool, prompt, store, tui >>

\* Lines 523-528: the issue is synced (if configured), the deferral is cleared.
SyncAndClear ==
    /\ pc = "sync"
    /\ deferred' = ClearDeferredTask(deferred, task)
    /\ pc' = "pr"
    /\ UNCHANGED << mgrVars, opts, runs, result, iteration,
                    abortDueToRetryableFailure, task, attempt, modelToUse,
                    aiResult, errorMsg, complete, hist >>
    /\ UNCHANGED << branch, chat, cli, script, pool, prompt, store, tui >>

\* Line 532: createPullRequest throws.
PrThrows(msg) ==
    /\ pc = "pr"
    /\ opts.createPr
    /\ errorMsg' = msg
    /\ pc' = "catch"
    /\ hist' = [ hist EXCEPT !.run.origin = "post" ]
    /\ UNCHANGED << mgrVars, opts, runs, result, iteration,
                    abortDueToRetryableFailure, task, attempt, modelToUse,
                    aiResult, complete, deferred >>
    /\ UNCHANGED << branch, chat, cli, script, pool, prompt, store, tui >>

\* Lines 530-546: the pull request is created (if configured); in interactive
\* mode the follow-up step comes next.
PrDone ==
    /\ pc = "pr"
    /\ pc' = IF opts.interactive THEN "followUp" ELSE "endIter"
    /\ UNCHANGED << mgrVars, opts, runs, result, iteration,
                    abortDueToRetryableFailure, task, attempt, modelToUse,
                    aiResult, errorMsg, complete, deferred, hist >>
    /\ UNCHANGED << branch, chat, cli, script, pool, prompt, store, tui >>

\* The effect of the failure branch chosen for errMsg; from is where the
\* failure came from.
ApplyFailure(errMsg, from) ==
    LET b == FailureBranch(errMsg, deferred, task, opts.maxRetries)
        counted == b.branch \in { "exhausted", "deferred" } /\ from # "post"
        n == IF hist.all.retryableFails[task] > MaxRetriesOpt
             THEN hist.all.retryableFails[task]
             ELSE hist.all.retryableFails[task] + 1
    IN
    /\ deferred' = b.deferred
    /\ result' = [ result EXCEPT !.tasksFailed = @ + 1 ]
    /\ abortDueToRetryableFailure' = (abortDueToRetryableFailure \/ b.abort)
    /\ complete' = IF b.mark THEN MarkComplete(complete, task) ELSE complete
    /\ pc' = IF b.return THEN "done" ELSE "endIter"
    /\ hist' = [ hist EXCEPT
           !.run.branch = b.branch,
           !.run.origin = from,
           !.run.deferredBefore = deferred[task],
           !.run.failCount = IF counted THEN n ELSE 0,
           !.run.postFails = IF from = "post" THEN @ + 1 ELSE @,
           !.run.stoppedBy =
               IF b.branch \in { "fatal", "unknown", "deferred" } THEN b.branch ELSE @,
           !.all = [ (IF b.mark THEN LedgerAfterMark(hist.all, task) ELSE hist.all)
                       EXCEPT !.retryableFails[task] =
                           IF ~counted THEN @
                           ELSE IF b.branch = "exhausted" THEN 0 ELSE n ] ]

\* Lines 608-650: the AIResult reports a failure.
HandleFailure ==
    /\ pc = "returned"
    /\ ~aiResult.success
    /\ ApplyFailure(IF aiResult.error = E_EMPTY THEN E_UNKNOWN ELSE aiResult.error,
                    "result")
    /\ UNCHANGED << mgrVars, opts, runs, iteration, task, attempt, modelToUse,
                    aiResult, errorMsg >>
    /\ UNCHANGED << branch, chat, cli, script, pool, prompt, store, tui >>

\* Lines 651-692: an exception was caught (thrown by withRetry, or by a step
\* that follows markComplete).
HandleCatch ==
    /\ pc = "catch"
    /\ ApplyFailure(errorMsg, hist.run.origin)
    /\ UNCHANGED << mgrVars, opts, runs, iteration, task, attempt, modelToUse,
                    aiResult, errorMsg >>
    /\ UNCHANGED << branch, chat, cli, script, pool, prompt, store, tui >>

\* Lines 695-702: back to the base branch; the loop ends if a stop was decided.
EndIteration ==
    /\ pc = "endIter"
    /\ branch' = IF opts.branchPerTask THEN "base" ELSE branch
    /\ pc' = IF abortDueToRetryableFailure THEN "done" ELSE "loop"
    /\ attempt' = 0
    /\ modelToUse' = NoModel
    /\ aiResult' = NoResult
    /\ errorMsg' = E_EMPTY
    /\ UNCHANGED << mgrVars, opts, runs, result, iteration,
                    abortDueToRetryableFailure, task, complete, deferred, hist >>
    /\ UNCHANGED << chat, cli, script, pool, prompt, store, tui >>

\* Time passes during a run: while the loop is between two tasks, during the
\* sleep before an attempt, and while the engine works.  The manager reads the
\* clock only relative to fallbackStartTime, so the passing of time is
\* recorded only once the manager is in Fallback.
RunTick ==
    /\ pc \in { "loop", "attempt", "inflight" }
    /\ state.inFallback
    /\ Tick
    /\ UNCHANGED << state, lastCall, streak, runVars >>

Next ==
    \/ StartRun
    \/ LoopIterationLimit
    \/ LoopNoTask
    \/ LoopDryRun
    \/ LoopDispatch
    \/ AttemptStart
    \/ \E msg \in ThrowErrors : EngineThrows(msg)
    \/ \E res \in EngineResults : StreamingReturns(res)
    \/ \E res \in EngineResults : ExecuteReturns(res)
    \/ HandleSuccess
    \/ \E msg \in PostErrors : SyncThrows(msg)
    \/ SyncAndClear
    \/ \E msg \in PostErrors : PrThrows(msg)
    \/ PrDone
    \/ HandleFailure
    \/ HandleCatch
    \/ EndIteration
    \/ RunTick

\* Successive runs of runSequential over one backlog and one deferred store.
Spec == Init /\ [][Next]_vars

\* One run over a fresh backlog and an empty deferred store, with or without
\* a branch per task.
InitOneRun ==
    /\ now = 1
    /\ state = InitialState
    /\ lastCall = NoCall
    /\ streak = NoStreak
    /\ RunIdle
    /\ ~opts.interactive
    /\ runs = MaxRuns - 1

SpecOneRun == InitOneRun /\ [][Next]_vars

\* What an engine that always reports a rate limit returns.
RateLimitResults ==
    { res \in EngineResults : ~res.success /\ IsRateLimitError(res.error) }

InitRateLimited ==
    /\ InitOneRun
    /\ ~opts.dryRun
    /\ ~opts.branchPerTask

NextRateLimited ==
    \/ StartRun
    \/ LoopIterationLimit
    \/ LoopDispatch
    \/ AttemptStart
    \/ \E res \in RateLimitResults : StreamingReturns(res)
    \/ \E res \in RateLimitResults : ExecuteReturns(res)
    \/ HandleFailure
    \/ HandleCatch
    \/ EndIteration
    \/ RunTick

\* One run in which every task engine call returns a rate-limit failure.
SpecRateLimited == InitRateLimited /\ [][NextRateLimited]_vars

(***************************************************************************)
(* The manager alone, under an arbitrary sequence of calls.                *)
(***************************************************************************)
MgrInit ==
    /\ now = 1
    /\ state = InitialState
    /\ lastCall = NoCall
    /\ streak = NoStreak
    /\ RunIdle
    /\ runs = 0
    /\ opts = [ maxRetries |-> 1, maxIterations |-> 0, dryRun |-> FALSE,
                streaming |-> FALSE, modelOverride |-> NoModel,
                syncIssue |-> FALSE, createPr |-> FALSE,
                branchPerTask |-> FALSE, interactive |-> FALSE ]

MgrNext ==
    \/ MgrTick
    \/ CallGetCurrentModel
    \/ CallGetStatus
    \/ \E error \in Errors : CallHandleError(error)
    \/ \E model \in Models : CallRecordSuccess(model)

\* The manager under an arbitrary sequence of calls.
SpecFallback == MgrInit /\ [][MgrNext]_vars

(***************************************************************************)
(* Properties of ModelFallbackManager.                                     *)
(***************************************************************************)
Elapsed(c) == c.at - c.pre.fallbackStartTime

\* C2: getCurrentModel() returns the primary id in Primary; in Fallback it
\* returns the fallback id exactly when the time elapsed since entering
\* Fallback is below retryInterval, and otherwise it goes back to Primary and
\* returns the primary id (no recordSuccess needed).
C2_GetCurrentModel ==
    lastCall.op = "getCurrentModel" =>
        /\ ~lastCall.pre.inFallback =>
              lastCall.retModel = Primary /\ state = lastCall.pre
        /\ lastCall.pre.inFallback =>
              /\ (lastCall.retModel = Fallback) <=> (Elapsed(lastCall) < RetryInterval)
              /\ Elapsed(lastCall) < RetryInterval => state = lastCall.pre
              /\ Elapsed(lastCall) >= RetryInterval =>
                    /\ lastCall.retModel = Primary
                    /\ ~state.inFallback
                    /\ state.fallbackStartTime = NULL

\* C2 witness: a getCurrentModel() call in Fallback after the interval elapsed
\* returned the primary id, and the call before the interval returned fallback.
C2_Witness ==
    /\ lastCall.op = "getCurrentModel"
    /\ lastCall.pre.inFallback
    /\ Elapsed(lastCall) >= RetryInterval
    /\ lastCall.retModel = Primary
    /\ ~state.inFallback

\* C3: N >= 1 consecutive rate-limit handleError calls starting in Primary
\* cause exactly one Primary->Fallback transition; only the first returns
\* shouldRetry = true and the manager stays in Fallback.
C3_OneTransition ==
    streak.calls >= 1 =>
        /\ streak.transitions = 1
        /\ streak.retries = 1
        /\ streak.firstRetry
        /\ state.inFallback

\* C3 witness: a second consecutive rate-limit error, answered without a retry
\* while the manager stays in Fallback.
C3_Witness ==
    /\ streak.calls >= 2
    /\ lastCall.op = "handleError"
    /\ ~lastCall.shouldRetry
    /\ state.inFallback

\* C4: a rate-limit error in Primary enters Fallback, stamps fallbackStartTime
\* with the current time and returns {true, fallback id}; an error that is no
\* rate-limit signal returns {false, null} and leaves the state unchanged.
C4_HandleError ==
    lastCall.op = "handleError" =>
        /\ (IsRateLimitError(lastCall.error) /\ ~lastCall.pre.inFallback) =>
              /\ state.inFallback
              /\ state.fallbackStartTime = lastCall.at
              /\ lastCall.shouldRetry
              /\ lastCall.retModel = Fallback
        /\ ~IsRateLimitError(lastCall.error) =>
              /\ ~lastCall.shouldRetry
              /\ lastCall.retModel = NoModel
              /\ state = lastCall.pre

\* C4 witness: a rate-limit error in Primary, some time after construction,
\* stamped fallbackStartTime with the time of the call.
C4_Witness ==
    /\ lastCall.op = "handleError"
    /\ IsRateLimitError(lastCall.error)
    /\ ~lastCall.pre.inFallback
    /\ state.fallbackStartTime = lastCall.at
    /\ lastCall.at > 1

\* C5 as stated: a rate-limit error while already in Fallback changes nothing
\* in the FallbackState and returns {false, null}.
C5_NoChangeInFallback ==
    (lastCall.op = "handleError" /\ IsRateLimitError(lastCall.error)
        /\ lastCall.pre.inFallback) =>
        /\ state = lastCall.pre
        /\ ~lastCall.shouldRetry
        /\ lastCall.retModel = NoModel

\* C5 amended: a rate-limit error while already in Fallback leaves inFallback
\* and fallbackStartTime unchanged and returns {false, null}, but it increments
\* rateLimitCount by one and sets lastRateLimitTime to the current time.
C5_InFallback ==
    (lastCall.op = "handleError" /\ IsRateLimitError(lastCall.error)
        /\ lastCall.pre.inFallback) =>
        /\ state.inFallback
        /\ state.fallbackStartTime = lastCall.pre.fallbackStartTime
        /\ state.rateLimitCount = lastCall.pre.rateLimitCount + 1
        /\ state.lastRateLimitTime = lastCall.at
        /\ ~lastCall.shouldRetry
        /\ lastCall.retModel = NoModel

\* C5 witness: a rate-limit error handled in Fallback, after the transition,
\* raised rateLimitCount to 2 or more.
C5_Witness ==
    /\ lastCall.op = "handleError"
    /\ IsRateLimitError(lastCall.error)
    /\ lastCall.pre.inFallback
    /\ lastCall.at > lastCall.pre.fallbackStartTime
    /\ state.rateLimitCount >= 2

\* C6: recordSuccess(primary id) in Fallback returns to Primary whatever part
\* of the interval has elapsed; with another model the Primary/Fallback state
\* and fallbackStartTime are unchanged; rateLimitCount is 0 afterwards.
C6_RecordSuccess ==
    lastCall.op = "recordSuccess" =>
        /\ (lastCall.model = Primary /\ lastCall.pre.inFallback) =>
              ~state.inFallback /\ state.fallbackStartTime = NULL
        /\ lastCall.model # Primary =>
              /\ state.inFallback = lastCall.pre.inFallback
              /\ state.fallbackStartTime = lastCall.pre.fallbackStartTime
        /\ state.rateLimitCount = 0

\* C6 witness: a success on the primary model before the interval elapsed.
C6_Witness ==
    /\ lastCall.op = "recordSuccess"
    /\ lastCall.model = Primary
    /\ lastCall.pre.inFallback
    /\ Elapsed(lastCall) < RetryInterval
    /\ lastCall.pre.rateLimitCount >= 1
    /\ ~state.inFallback

(***************************************************************************)
(* Properties of runSequential.                                            *)
(***************************************************************************)
\* The failure handled in this iteration is a failure of the task's own engine
\* invocation: a failed AIResult, or an exception thrown out of withRetry.
EngineFailure == hist.run.origin \in { "result", "withRetry" }

FailureBranches == { "exhausted", "deferred", "fatal", "unknown" }

\* C1: markComplete(T) is called at most once for every task T, and only
\* after a successful AIResult of T's own engine invocation in the same
\* iteration; no failure path and no dry run marks a task complete.
C1_MarkCompleteOnlyOnSuccess ==
    /\ \A t \in Tasks : hist.all.markCalls[t] <= 1
    /\ \A t \in Tasks : (t \in complete) <=> (hist.all.markCalls[t] = 1)
    /\ ~hist.all.badMark
    /\ (hist.run.branch = "dryRun" \/
        (hist.run.branch \in FailureBranches /\ EngineFailure))
           => task \notin complete
    /\ pc \in { "sync", "pr" } =>
           aiResult.success /\ aiResult.task = task /\ task \in complete

\* C1 witness: in one run the first task was marked complete after its
\* success and the second task failed and stays unchecked.
C1_Witness ==
    /\ hist.run.branch \in FailureBranches
    /\ EngineFailure
    /\ task = 2
    /\ result.tasksCompleted = 1
    /\ hist.all.markCalls[1] = 1
    /\ 2 \notin complete

\* C7: when the failure of a task is classified fatal the run aborts at once:
\* tasksFailed grows by exactly 1, the task is not marked complete, no further
\* getNextTask call or task engine invocation is made, and the result is
\* returned.
C7_FatalAborts ==
    /\ hist.run.branch = "fatal" =>
          /\ pc = "done"
          /\ result.tasksFailed = hist.run.atDispatch.tasksFailed + 1
          /\ EngineFailure =>
                /\ task \notin complete
                /\ result = [ hist.run.atDispatch EXCEPT !.tasksFailed = @ + 1 ]
    /\ hist.run.stoppedBy = "fatal" => pc = "done" /\ ~hist.run.afterStop

\* C7 witness: a fatal engine failure of the first task ended the run while
\* every task of the backlog is still unchecked.
C7_Witness ==
    /\ hist.run.branch = "fatal"
    /\ EngineFailure
    /\ pc = "done"
    /\ task = 1
    /\ complete = {}
    /\ result.tasksFailed = 1

\* C8: when the failure of a task is neither retryable nor fatal, the task is
\* counted in tasksFailed, is not marked complete, and the run stops after
\* that iteration: no further task is obtained or dispatched.
C8_UnknownStops ==
    /\ hist.run.branch = "unknown" =>
          /\ pc \in { "endIter", "done" }
          /\ abortDueToRetryableFailure
          /\ result.tasksFailed = hist.run.atDispatch.tasksFailed + 1
          /\ EngineFailure => task \notin complete
    /\ hist.run.stoppedBy = "unknown" =>
          pc \in { "endIter", "done" } /\ ~hist.run.afterStop

\* C8 witness: an unknown failure of the first task ended the run while every
\* task of the backlog is still unchecked.
C8_Witness ==
    /\ hist.run.stoppedBy = "unknown"
    /\ hist.run.origin = "result"
    /\ pc = "done"
    /\ task = 1
    /\ complete = {}
    /\ result.tasksFailed = 1

\* C9: a retryable failure increments the task's deferred counter; when the
\* counter has reached maxRetries the task is reported failed, stays unchecked
\* and the loop goes on to getNextTask; otherwise the run stops with no
\* further task dispatched.
C9_RetryableFailure ==
    /\ hist.run.branch = "exhausted" =>
          /\ hist.run.deferredBefore + 1 >= opts.maxRetries
          /\ ~abortDueToRetryableFailure
          /\ pc \in { "endIter", "loop" }
          /\ result.tasksFailed = hist.run.atDispatch.tasksFailed + 1
          /\ EngineFailure => task \notin complete
    /\ hist.run.branch = "deferred" =>
          /\ hist.run.deferredBefore + 1 < opts.maxRetries
          /\ deferred[task] = hist.run.deferredBefore + 1
          /\ abortDueToRetryableFailure
          /\ pc \in { "endIter", "done" }
          /\ result.tasksFailed = hist.run.atDispatch.tasksFailed + 1
          /\ EngineFailure => task \notin complete
    /\ hist.run.stoppedBy = "deferred" =>
          pc \in { "endIter", "done" } /\ ~hist.run.afterStop
    /\ hist.run.prevBranch = "exhausted" => hist.run.stoppedBy \in { "none", hist.run.branch }

\* C9 witness: after a task exhausted its deferrals (a counter carried over
\* from an earlier run reached maxRetries), the same run dispatched again.
C9_Witness ==
    /\ hist.run.prevBranch = "exhausted"
    /\ pc = "attempt"
    /\ opts.maxRetries >= 2
    /\ result.tasksFailed = 1
    /\ task \notin complete

\* C10 as stated: a task that failed with a retryable error exactly maxRetries
\* times is reported failed, and with fewer such failures it stays pending.
C10_ExactlyMaxRetries ==
    (hist.run.branch \in { "exhausted", "deferred" } /\ EngineFailure) =>
        /\ hist.run.failCount = opts.maxRetries => hist.run.branch = "exhausted"
        /\ hist.run.failCount < opts.maxRetries => hist.run.branch = "deferred"

\* C10 amended: the persisted counter is created at 1 on the first retryable
\* failure and grows by 1 on each later one; when the incremented counter
\* reaches maxRetries the task is reported failed and the counter is cleared,
\* otherwise the task stays pending with the counter retained.  The counter is
\* also cleared on the success path (after markComplete and issue sync) and by
\* an unknown failure, and a fatal failure leaves it as it is: it counts the
\* retryable failures since it was last cleared.
C10_CounterLifecycle ==
    /\ hist.run.branch = "exhausted" =>
          /\ hist.run.deferredBefore + 1 >= opts.maxRetries
          /\ deferred[task] = 0
    /\ hist.run.branch = "deferred" =>
          /\ hist.run.deferredBefore + 1 < opts.maxRetries
          /\ deferred[task] = hist.run.deferredBefore + 1
          /\ EngineFailure => task \notin complete
    /\ hist.run.branch = "unknown" => deferred[task] = 0
    /\ hist.run.branch = "fatal" => deferred[task] = hist.run.deferredBefore
    /\ (hist.run.branch = "success" /\ pc \in { "pr", "endIter", "loop" }) =>
          deferred[task] = 0

\* C10 witness: in a later run a counter kept from an earlier run reached
\* maxRetries and was cleared.
C10_Witness ==
    /\ runs >= 2
    /\ hist.run.branch = "exhausted"
    /\ EngineFailure
    /\ hist.run.deferredBefore >= 1
    /\ hist.run.deferredBefore + 1 = opts.maxRetries
    /\ deferred[task] = 0

(***************************************************************************)
(* Interleaved chat and the follow-up message of an interactive run.       *)
(***************************************************************************)
\* The user submits a message while no prompt is waiting for it:
\* logStore.submitInput appends it to inputQueue.
UserSubmits ==
    /\ pc \notin { "idle", "done" }
    /\ chat.sent < MaxMessages
    /\ chat' = [ chat EXCEPT !.queue = @ + 1, !.sent = @ + 1 ]
    /\ UNCHANGED << mgrVars, pc, opts, runs, result, iteration,
                    abortDueToRetryableFailure, task, attempt, modelToUse,
                    aiResult, errorMsg, complete, deferred, hist, branch, cli, script, pool, prompt, store, tui >>

\* Line 358: the drain at the loop head is awaited; processChatQueue pops a
\* message and calls the engine for it (lines 727-775).
ChatDrainStart ==
    /\ pc = "loop"
    /\ chat.queue > 0
    /\ chat' = [ chat EXCEPT !.queue = @ - 1, !.drain = TRUE ]
    /\ pc' = "chat"
    /\ UNCHANGED << mgrVars, opts, runs, result, iteration,
                    abortDueToRetryableFailure, task, attempt, modelToUse,
                    aiResult, errorMsg, complete, deferred, hist, branch, cli, script, pool, prompt, store, tui >>

\* Lines 777-804: the chat call of the awaited drain ends; captured is TRUE
\* when it succeeded with a FEEDBACK block, which onFeedback pushes to
\* collectedFeedback.  The next message is popped, or the drain returns.
ChatReturns(captured) ==
    /\ pc = "chat"
    /\ chat' = [ chat EXCEPT
           !.feedback = IF captured THEN @ + 1 ELSE @,
           !.queue = IF @ > 0 THEN @ - 1 ELSE @,
           !.drain = (chat.queue > 0) ]
    /\ pc' = IF chat.queue > 0 THEN "chat" ELSE "loop"
    /\ UNCHANGED << mgrVars, opts, runs, result, iteration,
                    abortDueToRetryableFailure, task, attempt, modelToUse,
                    aiResult, errorMsg, complete, deferred, hist, branch, cli, script, pool, prompt, store, tui >>

\* Mutant: the task's engine call polls the chat queue with execute() too.
ProgressPoll_AnyEngine ==
    /\ pc = "inflight"
    /\ chat.queue > 0
    /\ chat' = [ chat EXCEPT !.queue = @ - 1, !.bg = @ + 1 ]
    /\ UNCHANGED << mgrVars, pc, opts, runs, result, iteration,
                    abortDueToRetryableFailure, task, attempt, modelToUse,
                    aiResult, errorMsg, complete, deferred, hist, branch, cli, script, pool, prompt, store, tui >>

\* Lines 447-462: a progress callback of executeStreaming starts a drain that
\* is not awaited; it pops a message and calls the engine for it while the
\* task's call is running.
ProgressPoll ==
    /\ pc = "inflight"
    /\ opts.streaming
    /\ chat.queue > 0
    /\ chat' = [ chat EXCEPT !.queue = @ - 1, !.bg = @ + 1 ]
    /\ UNCHANGED << mgrVars, pc, opts, runs, result, iteration,
                    abortDueToRetryableFailure, task, attempt, modelToUse,
                    aiResult, errorMsg, complete, deferred, hist, branch, cli, script, pool, prompt, store, tui >>

\* Lines 777-804 in a drain that is not awaited: its chat call ends, whatever
\* runSequential is doing by then.
BgChatReturns(captured) ==
    /\ chat.bg > 0
    /\ chat' = [ chat EXCEPT
           !.feedback = IF captured THEN @ + 1 ELSE @,
           !.queue = IF @ > 0 THEN @ - 1 ELSE @,
           !.bg = IF chat.queue > 0 THEN @ ELSE @ - 1 ]
    /\ UNCHANGED << mgrVars, pc, opts, runs, result, iteration,
                    abortDueToRetryableFailure, task, attempt, modelToUse,
                    aiResult, errorMsg, complete, deferred, hist, branch, cli, script, pool, prompt, store, tui >>

\* Lines 551-555: collected feedback becomes the follow-up message and
\* collectedFeedback is emptied.
FollowUpFromFeedback ==
    /\ pc = "followUp"
    /\ chat.feedback > 0
    /\ chat' = [ chat EXCEPT !.feedback = 0 ]
    /\ pc' = "userInflight"
    /\ UNCHANGED << mgrVars, opts, runs, result, iteration,
                    abortDueToRetryableFailure, task, attempt, modelToUse,
                    aiResult, errorMsg, complete, deferred, hist, branch, cli, script, pool, prompt, store, tui >>

\* Lines 556-560: without feedback the user is prompted; typed is FALSE when
\* promptForUserInput gives null or an empty text.
FollowUpPrompt(typed) ==
    /\ pc = "followUp"
    /\ chat.feedback = 0
    /\ pc' = IF typed THEN "userInflight" ELSE "endIter"
    /\ UNCHANGED << mgrVars, opts, runs, result, iteration,
                    abortDueToRetryableFailure, task, attempt, modelToUse,
                    aiResult, errorMsg, complete, deferred, hist, branch, chat,
                    cli, script, pool, prompt, store, tui >>

\* What the engine may return for a follow-up message.
FollowUpResults ==
    { [ NoResult EXCEPT !.success = TRUE, !.inputTokens = 20, !.outputTokens = 10 ],
      [ NoResult EXCEPT !.error = E_CRASH, !.inputTokens = 7, !.outputTokens = 3 ] }

\* Mutant: the tokens of a failed follow-up result are added too.
FollowUpReturns_CountsFailed(res) ==
    /\ pc = "userInflight"
    /\ result' = [ result EXCEPT !.totalInputTokens = @ + res.inputTokens,
                                 !.totalOutputTokens = @ + res.outputTokens ]
    /\ chat' = IF res.success
               THEN [ chat EXCEPT !.fuIn = @ + res.inputTokens,
                                  !.fuOut = @ + res.outputTokens ]
               ELSE chat
    /\ pc' = "endIter"
    /\ UNCHANGED << mgrVars, opts, runs, iteration,
                    abortDueToRetryableFailure, task, attempt, modelToUse,
                    aiResult, errorMsg, complete, deferred, hist, branch, cli, script, pool, prompt, store, tui >>

\* Lines 562-606: the engine call for the follow-up message ends; the tokens
\* of a successful result are added to the totals, a failure (or an exception,
\* caught at line 603) is only reported.
FollowUpReturns(res) ==
    /\ pc = "userInflight"
    /\ result' = IF res.success
                 THEN [ result EXCEPT !.totalInputTokens = @ + res.inputTokens,
                                      !.totalOutputTokens = @ + res.outputTokens ]
                 ELSE result
    /\ chat' = IF res.success
               THEN [ chat EXCEPT !.fuIn = @ + res.inputTokens,
                                  !.fuOut = @ + res.outputTokens ]
               ELSE chat
    /\ pc' = "endIter"
    /\ UNCHANGED << mgrVars, opts, runs, iteration,
                    abortDueToRetryableFailure, task, attempt, modelToUse,
                    aiResult, errorMsg, complete, deferred, hist, branch, cli, script, pool, prompt, store, tui >>

\* What the engine may return for a task in the runs with chat: two successes
\* with different token counts, and a failure of each class.
ChatRunResults ==
    { res \in EngineResults : res.success \/ res.error \in { E_RATE, E_AUTH, E_CRASH } }
    \cup
    { [ NoResult EXCEPT !.success = TRUE, !.inputTokens = 40, !.outputTokens = 30 ] }

\* One run, with stdin a terminal or not, without iteration cap, task
\* branches, pull requests or model override.
InitChat ==
    /\ now = 1
    /\ state = InitialState
    /\ lastCall = NoCall
    /\ streak = NoStreak
    /\ RunIdle
    /\ runs = MaxRuns - 1
    /\ ~opts.dryRun
    /\ ~opts.branchPerTask
    /\ ~opts.createPr
    /\ opts.maxIterations = 0
    /\ opts.modelOverride = NoModel

NextChat ==
    \/ StartRun
    \/ LoopNoTask
    \/ LoopDispatch
    \/ AttemptStart
    \/ \E msg \in ThrowErrors : EngineThrows(msg)
    \/ \E res \in ChatRunResults : StreamingReturns(res)
    \/ \E res \in ChatRunResults : ExecuteReturns(res)
    \/ HandleSuccess
    \/ \E msg \in PostErrors : SyncThrows(msg)
    \/ SyncAndClear
    \/ PrDone
    \/ HandleFailure
    \/ HandleCatch
    \/ EndIteration
    \/ RunTick
    \/ UserSubmits
    \/ ChatDrainStart
    \/ \E captured \in BOOLEAN : ChatReturns(captured)
    \/ ProgressPoll
    \/ \E captured \in BOOLEAN : BgChatReturns(captured)
    \/ FollowUpFromFeedback
    \/ \E typed \in BOOLEAN : FollowUpPrompt(typed)
    \/ \E res \in FollowUpResults : FollowUpReturns(res)

\* One run of runSequential with the user's chat messages and follow-ups.
SpecChat == InitChat /\ [][NextChat]_vars

(***************************************************************************)
(* runLoop (cli/commands/run.ts) around a sequential run, with the TUI.    *)
(***************************************************************************)
\* run.ts lines 43-84: the TUI is started when stdin and stdout are terminals
\* and the run is not a dry run; startTui sets tuiState.active and keeps the
\* resolver of its promise in tuiState.exitResolver.
RunLoopEnter(stdoutTTY) ==
    /\ cli.pc = "off"
    /\ LET useTui == opts.interactive /\ stdoutTTY /\ ~opts.dryRun IN
         cli' = [ cli EXCEPT !.pc = "run", !.useTui = useTui,
                             !.active = useTui, !.exitResolver = useTui ]
    /\ UNCHANGED << mgrVars, pc, opts, runs, result, iteration,
                    abortDueToRetryableFailure, task, attempt, modelToUse,
                    aiResult, errorMsg, complete, deferred, hist, branch, chat, script, pool, prompt, store, tui >>

\* run.ts lines 205-233: runSequential runs while the process is alive.
RunStep ==
    /\ cli.pc = "run"
    /\ cli.exitCode = NULL
    /\ \/ StartRun
       \/ LoopNoTask
       \/ LoopDispatch
       \/ AttemptStart
       \/ \E msg \in ThrowErrors : EngineThrows(msg)
       \/ \E res \in EngineResults : StreamingReturns(res)
       \/ \E res \in EngineResults : ExecuteReturns(res)
       \/ HandleSuccess
       \/ \E msg \in PostErrors : SyncThrows(msg)
       \/ SyncAndClear
       \/ PrDone
       \/ HandleFailure
       \/ HandleCatch
       \/ EndIteration
       \/ RunTick
       \/ \E typed \in BOOLEAN : FollowUpPrompt(typed)
       \/ \E res \in FollowUpResults : FollowUpReturns(res)

\* run.ts lines 236-276 once runSequential has returned: the task source is
\* flushed and disposed (236-237); with failed tasks
\* exitWithError(1) is called, which exits at once without the TUI and
\* otherwise waits for the user's input (line 48); without failed tasks
\* runLoop waits for input with the TUI (line 276) and returns without it.
RunReturns ==
    /\ cli.pc = "run"
    /\ cli.exitCode = NULL
    /\ pc = "done"
    /\ cli' = IF result.tasksFailed > 0
              THEN IF cli.useTui /\ cli.active
                   THEN [ cli EXCEPT !.pc = "exitWait", !.code = 1,
                                     !.flushed = TRUE ]
                   ELSE [ cli EXCEPT !.pc = "exited", !.exitCode = 1,
                                     !.flushed = TRUE ]
              ELSE IF cli.useTui /\ cli.active
                   THEN [ cli EXCEPT !.pc = "finishWait", !.flushed = TRUE ]
                   ELSE [ cli EXCEPT !.pc = "returned", !.flushed = TRUE ]
    /\ UNCHANGED << mgrVars, pc, opts, runs, result, iteration,
                    abortDueToRetryableFailure, task, attempt, modelToUse,
                    aiResult, errorMsg, complete, deferred, hist, branch, chat, script, pool, prompt, store, tui >>

\* The user presses Enter: waitForTuiInput resolves and `await stopTui()` runs
\* (run.ts 50 / 277, logger.ts 1014-1018, part_003 78-88): exitResolver() is
\* called, which queues the job that settles startTui's promise, and then the
\* job that continues after the await.
UserEnter ==
    /\ cli.pc \in { "exitWait", "finishWait" }
    /\ cli.exitCode = NULL
    /\ cli.jobs = << >>
    /\ cli' = [ cli EXCEPT
           !.pc = IF cli.pc = "exitWait" THEN "exitStop" ELSE "finishStop",
           !.jobs = (IF cli.exitResolver THEN << "resolveTui" >> ELSE << >>)
                        \o << "continue" >>,
           !.exitResolver = FALSE,
           !.active = FALSE ]
    /\ UNCHANGED << mgrVars, pc, opts, runs, result, iteration,
                    abortDueToRetryableFailure, task, attempt, modelToUse,
                    aiResult, errorMsg, complete, deferred, hist, branch, chat, script, pool, prompt, store, tui >>

\* The first queued promise job runs.  The promise of part_003's startTui
\* settles that of logger.ts' startTui (1004-1009), whose `then` handler
\* (run.ts 70-72) calls process.exit(0); the continuation of exitWithError
\* calls process.exit(code) (run.ts 52), that of runLoop returns (run.ts 278).
PromiseJob ==
    /\ cli.jobs # << >>
    /\ cli.exitCode = NULL
    /\ LET job == Head(cli.jobs)
           rest == Tail(cli.jobs)
       IN cli' =
            IF job = "resolveTui"
            THEN [ cli EXCEPT !.jobs = rest \o << "tuiPromise" >> ]
            ELSE IF job = "tuiPromise"
            THEN [ cli EXCEPT !.jobs = rest \o << "thenExit" >> ]
            ELSE IF job = "thenExit"
            THEN [ cli EXCEPT !.jobs = << >>, !.pc = "exited", !.exitCode = 0 ]
            ELSE IF cli.pc = "exitStop"
            THEN [ cli EXCEPT !.jobs = << >>, !.pc = "exited",
                              !.exitCode = cli.code ]
            ELSE [ cli EXCEPT !.jobs = rest, !.pc = "returned" ]
    /\ UNCHANGED << mgrVars, pc, opts, runs, result, iteration,
                    abortDueToRetryableFailure, task, attempt, modelToUse,
                    aiResult, errorMsg, complete, deferred, hist, branch, chat, script, pool, prompt, store, tui >>

\* The user presses Ctrl+C in the TUI (logger.ts 1080-1085, 1095-1099):
\* cleanupAndExit destroys the renderer, calls onExit and process.exit(0).
CtrlC ==
    /\ cli.active
    /\ cli.exitCode = NULL
    /\ cli.jobs = << >>
    /\ cli' = [ cli EXCEPT !.pc = "exited", !.exitCode = 0,
                           !.active = FALSE, !.exitResolver = FALSE ]
    /\ UNCHANGED << mgrVars, pc, opts, runs, result, iteration,
                    abortDueToRetryableFailure, task, attempt, modelToUse,
                    aiResult, errorMsg, complete, deferred, hist, branch, chat, script, pool, prompt, store, tui >>

\* runLoop over one backlog, without iteration cap, task branches, pull
\* requests or model override; the user sends no chat message.
InitRunLoop ==
    /\ InitChat
    /\ opts.maxRetries = 1

NextRunLoop ==
    \/ \E stdoutTTY \in BOOLEAN : RunLoopEnter(stdoutTTY)
    \/ RunStep
    \/ RunReturns
    \/ UserEnter
    \/ PromiseJob
    \/ CtrlC

SpecRunLoop == InitRunLoop /\ [][NextRunLoop]_vars

(***************************************************************************)
(* ralphy-clean-start.sh: the main loop around ralphy.                     *)
(***************************************************************************)
ScriptRetryInterval == 600

ScriptPlainWait == 60

\* count_remaining_tasks (lines 247-257): the lines it prints for n unchecked
\* tasks.  For a single file `grep -c` prints the count and fails when the
\* count is 0, so that `|| echo "0"` prints a second line.
CountRemainingTasks(folder, n) ==
    IF folder THEN << n >>
    ELSE IF n > 0 THEN << n >> ELSE << 0, 0 >>

\* [[ "$REMAINING" -eq 0 ]] (line 269): true for the single line 0; a value of
\* several lines is no number, the test fails.
RemainingIsZero(out) == out = << 0 >>

\* Lines 147-238: the arguments are read and the loop is entered.
ScriptStart(engine, model, folder, cap) ==
    /\ script.pc = "off"
    /\ script' = [ script EXCEPT
           !.pc = "ralphy", !.engine = engine, !.model = model,
           !.argsModel = IF engine = "opencode" THEN model ELSE "none",
           !.folder = folder, !.cap = cap, !.unchecked = NumTasks ]
    /\ UNCHANGED << mgrVars, pc, opts, runs, result, iteration,
                    abortDueToRetryableFailure, task, attempt, modelToUse,
                    aiResult, errorMsg, complete, deferred, hist, branch, chat,
                    cli, pool, prompt, store, tui >>

\* The ralphy started at line 263 completes a task: it is checked in the PRD.
RalphyCompletesTask ==
    /\ script.pc = "ralphy"
    /\ ~script.stop
    /\ script.unchecked > 0
    /\ script.cap = 0 \/ script.started < script.cap
    /\ script' = [ script EXCEPT !.unchecked = @ - 1, !.started = @ + 1 ]
    /\ UNCHANGED << mgrVars, pc, opts, runs, result, iteration,
                    abortDueToRetryableFailure, task, attempt, modelToUse,
                    aiResult, errorMsg, complete, deferred, hist, branch, chat,
                    cli, pool, prompt, store, tui >>

\* The ralphy started at line 263 fails a task (a rate limit, for one): the
\* task stays unchecked, tasksFailed grows and the run stops.
RalphyFailsTask ==
    /\ script.pc = "ralphy"
    /\ ~script.stop
    /\ script.unchecked > 0
    /\ script.cap = 0 \/ script.started < script.cap
    /\ script' = [ script EXCEPT !.failed = @ + 1, !.started = @ + 1,
                                 !.stop = TRUE ]
    /\ UNCHANGED << mgrVars, pc, opts, runs, result, iteration,
                    abortDueToRetryableFailure, task, attempt, modelToUse,
                    aiResult, errorMsg, complete, deferred, hist, branch, chat,
                    cli, pool, prompt, store, tui >>

\* ralphy ends (run.ts 142-145, 270-272): with code 1 if tasks failed, with
\* code 0 otherwise (no task left, or the iteration cap was reached).
RalphyExits ==
    /\ script.pc = "ralphy"
    /\ \/ script.stop
       \/ script.unchecked = 0
       \/ script.cap > 0 /\ script.started >= script.cap
    /\ script' = [ script EXCEPT !.pc = "returned",
                                 !.exitCode = IF script.failed > 0 THEN 1 ELSE 0,
                                 !.started = 0, !.failed = 0, !.stop = FALSE ]
    /\ UNCHANGED << mgrVars, pc, opts, runs, result, iteration,
                    abortDueToRetryableFailure, task, attempt, modelToUse,
                    aiResult, errorMsg, complete, deferred, hist, branch, chat,
                    cli, pool, prompt, store, tui >>

\* ${RALPHY_ARGS/--model FROM/--model TO} (lines 293, 298): the model named
\* in the arguments is replaced if it is FROM, the arguments are unchanged
\* otherwise.
Substitute(named, from, to) == IF named = from THEN to ELSE named

\* Mutant: the loop sleeps the retry interval before either switch.
ScriptAfterRalphy_SleepsBoth ==
    /\ script.pc = "returned"
    /\ script' =
         IF script.exitCode # 0
         THEN [ script EXCEPT !.pc = "exited", !.status = script.exitCode ]
         ELSE IF RemainingIsZero(CountRemainingTasks(script.folder, script.unchecked))
         THEN [ script EXCEPT !.pc = "exited", !.status = 0 ]
         ELSE IF script.engine # "opencode"
         THEN [ script EXCEPT !.pc = "ralphy", !.slept = ScriptPlainWait ]
         ELSE IF script.model = "gemini"
         THEN [ script EXCEPT !.pc = "ralphy", !.slept = ScriptRetryInterval,
                              !.model = "opus",
                              !.argsModel = Substitute(@, "gemini", "opus") ]
         ELSE [ script EXCEPT !.pc = "ralphy", !.slept = ScriptRetryInterval,
                              !.model = "gemini",
                              !.argsModel = Substitute(@, "opus", "gemini") ]
    /\ UNCHANGED << mgrVars, pc, opts, runs, result, iteration,
                    abortDueToRetryableFailure, task, attempt, modelToUse,
                    aiResult, errorMsg, complete, deferred, hist, branch, chat,
                    cli, pool, prompt, store, tui >>

\* Lines 263-299 once ralphy has ended.  Under `set -e` (line 5) a failed
\* ralphy ends the script with ralphy's code before line 264.  Otherwise the
\* unchecked tasks are counted: none left ends the script with 0; with
\* another engine than opencode the loop sleeps 60 s and runs ralphy again;
\* on Gemini it sleeps 10 minutes and changes to Opus, on Opus it changes to
\* Gemini at once.
ScriptAfterRalphy ==
    /\ script.pc = "returned"
    /\ script' =
         IF script.exitCode # 0
         THEN [ script EXCEPT !.pc = "exited", !.status = script.exitCode ]
         ELSE IF RemainingIsZero(CountRemainingTasks(script.folder, script.unchecked))
         THEN [ script EXCEPT !.pc = "exited", !.status = 0 ]
         ELSE IF script.engine # "opencode"
         THEN [ script EXCEPT !.pc = "ralphy", !.slept = ScriptPlainWait ]
         ELSE IF script.model = "gemini"
         THEN [ script EXCEPT !.pc = "ralphy", !.slept = ScriptRetryInterval,
                              !.model = "opus",
                              !.argsModel = Substitute(@, "gemini", "opus") ]
         ELSE [ script EXCEPT !.pc = "ralphy", !.slept = 0, !.model = "gemini",
                              !.argsModel = Substitute(@, "opus", "gemini") ]
    /\ UNCHANGED << mgrVars, pc, opts, runs, result, iteration,
                    abortDueToRetryableFailure, task, attempt, modelToUse,
                    aiResult, errorMsg, complete, deferred, hist, branch, chat,
                    cli, pool, prompt, store, tui >>

InitScript ==
    /\ now = 1
    /\ state = InitialState
    /\ lastCall = NoCall
    /\ streak = NoStreak
    /\ RunIdle
    /\ opts \in OptionSets
    /\ opts.maxRetries = 1 /\ opts.maxIterations = 0 /\ ~opts.dryRun
    /\ ~opts.streaming /\ opts.modelOverride = NoModel
    /\ ~opts.syncIssue /\ ~opts.createPr
    /\ runs = 0

NextScript ==
    \/ \E engine \in { "opencode", "claude" },
          model \in { "gemini", "opus", "custom" },
          folder \in BOOLEAN, cap \in 0..MaxIterationsOpt :
            ScriptStart(engine, model, folder, cap)
    \/ RalphyCompletesTask
    \/ RalphyFailsTask
    \/ RalphyExits
    \/ ScriptAfterRalphy

SpecScript == InitScript /\ [][NextScript]_vars

(***************************************************************************)
(* runParallel (execution/parallel.ts): groups, worker pool, merge-back.   *)
(***************************************************************************)
Resolved == { "succeeded", "failed", "abandoned" }

WorkerOutcomes == Resolved

SeqRange(seq) == { seq[i] : i \in 1..Len(seq) }

PosIn(seq, x) == CHOOSE i \in 1..Len(seq) : seq[i] = x

SetMin(S) == CHOOSE x \in S : \A y \in S : x <= y

\* The unstarted tasks of group g.
UnstartedIn(p, g) == { t \in Tasks : p.group[t] = g /\ p.st[t] = "unstarted" }

\* The next unstarted task of the current group in backlog order, if any.
NextUnstarted(p) ==
    IF UnstartedIn(p, p.cur) = {} THEN NoTask ELSE SetMin(UnstartedIn(p, p.cur))

\* The workers of the pool without a task.
FreeSlots(p) == { w \in 1..p.maxParallel : p.slots[w] = NoTask }

\* The smallest group after g that has a task, or 0.
GroupAfter(p, g) ==
    LET later == { p.group[t] : t \in { u \in Tasks : p.group[u] > g } }
    IN IF later = {} THEN 0 ELSE SetMin(later)

\* The branches of the current group still to merge, in completion order.
MergeQueue(p) ==
    LET Waiting(t) == p.group[t] = p.cur /\ t \notin SeqRange(p.mergeLog)
    IN SelectSeq(p.completed, Waiting)

\* run.ts 181-206: runParallel is called; the backlog is partitioned by
\* parallelGroup and the smallest group is taken first.
ParallelStart(maxParallel, skipMerge, grouping) ==
    /\ pool.pc = "off"
    /\ LET p == [ pool EXCEPT !.maxParallel = maxParallel,
                              !.skipMerge = skipMerge, !.group = grouping ]
       IN pool' = [ p EXCEPT !.pc = "group", !.cur = GroupAfter(p, 0) ]
    /\ UNCHANGED << mgrVars, pc, opts, runs, result, iteration,
                    abortDueToRetryableFailure, task, attempt, modelToUse,
                    aiResult, errorMsg, complete, deferred, hist, branch, chat,
                    cli, script, prompt, store, tui >>

\* Mutant: the next unstarted task of the whole backlog is taken, whatever
\* its group.
Dispatch_AnyGroup(w) ==
    /\ pool.pc = "group"
    /\ w \in FreeSlots(pool)
    /\ \E t \in Tasks :
         /\ pool.st[t] = "unstarted"
         /\ \A u \in Tasks : pool.st[u] = "unstarted" => t <= u
         /\ pool' = [ pool EXCEPT !.st[t] = "running", !.slots[w] = t,
                                  !.dispatched = Append(@, t) ]
    /\ UNCHANGED << mgrVars, pc, opts, runs, result, iteration,
                    abortDueToRetryableFailure, task, attempt, modelToUse,
                    aiResult, errorMsg, complete, deferred, hist, branch, chat,
                    cli, script, prompt, store, tui >>

\* Mutant: every worker of the largest pool may take a task, whatever
\* maxParallel is.
Dispatch_AnySlot(w) ==
    /\ pool.pc = "group"
    /\ pool.slots[w] = NoTask
    /\ NextUnstarted(pool) # NoTask
    /\ LET t == NextUnstarted(pool)
       IN pool' = [ pool EXCEPT !.st[t] = "running", !.slots[w] = t,
                                !.dispatched = Append(@, t) ]
    /\ UNCHANGED << mgrVars, pc, opts, runs, result, iteration,
                    abortDueToRetryableFailure, task, attempt, modelToUse,
                    aiResult, errorMsg, complete, deferred, hist, branch, chat,
                    cli, script, prompt, store, tui >>

\* A free worker of the pool is given the next unstarted task of the current
\* group; the engine is then invoked for it in the worker's isolation.
Dispatch(w) ==
    /\ pool.pc = "group"
    /\ w \in FreeSlots(pool)
    /\ NextUnstarted(pool) # NoTask
    /\ LET t == NextUnstarted(pool)
       IN pool' = [ pool EXCEPT !.st[t] = "running", !.slots[w] = t,
                                !.dispatched = Append(@, t) ]
    /\ UNCHANGED << mgrVars, pc, opts, runs, result, iteration,
                    abortDueToRetryableFailure, task, attempt, modelToUse,
                    aiResult, errorMsg, complete, deferred, hist, branch, chat,
                    cli, script, prompt, store, tui >>

\* The engine invocation of worker w has terminated: its task has succeeded,
\* failed or is abandoned, and the slot is free again.
WorkerFinishes(w, outcome) ==
    /\ pool.pc = "group"
    /\ w \in 1..MaxParallel
    /\ pool.slots[w] # NoTask
    /\ LET t == pool.slots[w]
       IN pool' = [ pool EXCEPT
              !.st[t] = outcome,
              !.slots[w] = NoTask,
              !.completed = IF outcome = "succeeded" THEN Append(@, t) ELSE @ ]
    /\ UNCHANGED << mgrVars, pc, opts, runs, result, iteration,
                    abortDueToRetryableFailure, task, attempt, modelToUse,
                    aiResult, errorMsg, complete, deferred, hist, branch, chat,
                    cli, script, prompt, store, tui >>

\* All workers of the group have finished: the merge phase begins.
GroupFinished ==
    /\ pool.pc = "group"
    /\ NextUnstarted(pool) = NoTask
    /\ \A w \in 1..MaxParallel : pool.slots[w] = NoTask
    /\ pool' = [ pool EXCEPT !.pc = "merge" ]
    /\ UNCHANGED << mgrVars, pc, opts, runs, result, iteration,
                    abortDueToRetryableFailure, task, attempt, modelToUse,
                    aiResult, errorMsg, complete, deferred, hist, branch, chat,
                    cli, script, prompt, store, tui >>

\* Mutant: the branches are merged in backlog order.
MergeStart_BacklogOrder ==
    /\ pool.pc = "merge"
    /\ ~pool.skipMerge
    /\ pool.merging = {}
    /\ MergeQueue(pool) # << >>
    /\ LET t == SetMin(SeqRange(MergeQueue(pool)))
       IN pool' = [ pool EXCEPT !.merging = { t }, !.mergeLog = Append(@, t) ]
    /\ UNCHANGED << mgrVars, pc, opts, runs, result, iteration,
                    abortDueToRetryableFailure, task, attempt, modelToUse,
                    aiResult, errorMsg, complete, deferred, hist, branch, chat,
                    cli, script, prompt, store, tui >>

\* The merge of the next branch onto the base branch is started: the branch
\* of the task that completed first among those not yet merged, and only
\* when no other merge is in progress.
MergeStart ==
    /\ pool.pc = "merge"
    /\ ~pool.skipMerge
    /\ pool.merging = {}
    /\ MergeQueue(pool) # << >>
    /\ LET t == Head(MergeQueue(pool))
       IN pool' = [ pool EXCEPT !.merging = { t }, !.mergeLog = Append(@, t) ]
    /\ UNCHANGED << mgrVars, pc, opts, runs, result, iteration,
                    abortDueToRetryableFailure, task, attempt, modelToUse,
                    aiResult, errorMsg, complete, deferred, hist, branch, chat,
                    cli, script, prompt, store, tui >>

\* The merge in progress ends; on a conflict the task is reported failed and
\* its branch is kept, the other merges go on.
MergeEnds(conflict) ==
    /\ pool.pc = "merge"
    /\ pool.merging # {}
    /\ \E t \in pool.merging :
         pool' = [ pool EXCEPT
             !.merging = @ \ { t },
             !.st[t] = IF conflict THEN "failed" ELSE @ ]
    /\ UNCHANGED << mgrVars, pc, opts, runs, result, iteration,
                    abortDueToRetryableFailure, task, attempt, modelToUse,
                    aiResult, errorMsg, complete, deferred, hist, branch, chat,
                    cli, script, prompt, store, tui >>

\* The merge phase of the group is over (or skipped with skipMerge): the next
\* group is taken, or runParallel returns after the last one.
GroupMerged ==
    /\ pool.pc = "merge"
    /\ pool.merging = {}
    /\ pool.skipMerge \/ MergeQueue(pool) = << >>
    /\ pool' = IF GroupAfter(pool, pool.cur) = 0
               THEN [ pool EXCEPT !.pc = "done" ]
               ELSE [ pool EXCEPT !.pc = "group",
                                  !.cur = GroupAfter(pool, pool.cur) ]
    /\ UNCHANGED << mgrVars, pc, opts, runs, result, iteration,
                    abortDueToRetryableFailure, task, attempt, modelToUse,
                    aiResult, errorMsg, complete, deferred, hist, branch, chat,
                    cli, script, prompt, store, tui >>

InitParallel ==
    /\ now = 1
    /\ state = InitialState
    /\ lastCall = NoCall
    /\ streak = NoStreak
    /\ RunIdle
    /\ opts \in OptionSets
    /\ opts.maxRetries = 1 /\ opts.maxIterations = 0 /\ ~opts.dryRun
    /\ ~opts.streaming /\ opts.modelOverride = NoModel
    /\ ~opts.syncIssue /\ ~opts.createPr
    /\ runs = 0

NextParallel ==
    \/ \E maxParallel \in 1..MaxParallel, skipMerge \in BOOLEAN,
          grouping \in [ Tasks -> 1..NumGroups ] :
            ParallelStart(maxParallel, skipMerge, grouping)
    \/ \E w \in 1..MaxParallel : Dispatch(w)
    \/ \E w \in 1..MaxParallel, outcome \in WorkerOutcomes :
            WorkerFinishes(w, outcome)
    \/ GroupFinished
    \/ MergeStart
    \/ \E conflict \in BOOLEAN : MergeEnds(conflict)
    \/ GroupMerged

SpecParallel == InitParallel /\ [][NextParallel]_vars

\* The pool assigns a free slot as soon as it frees: a dispatch that stays
\* possible is made.
SpecParallelFair ==
    /\ InitParallel
    /\ [][NextParallel]_vars
    /\ WF_vars(\E w \in 1..MaxParallel : Dispatch(w))

(***************************************************************************)
(* promptForUserInput (ui/input.ts) on a terminal without the TUI.         *)
(***************************************************************************)
Keys == { "enter", "char", "space", "ctrlC" }

Answers == { "none", "text" }

\* A promptForUserInput call as its promise is created (lines 843-876, 948).
NewCall ==
    [ resolved |-> FALSE,      \* the flag `resolved`
      hasInput |-> FALSE,      \* the flag `hasInput`
      timer |-> "armed",       \* the 3000 ms timeout: armed, fired or cleared
      listening |-> TRUE,      \* onData is a "data" listener of stdin
      session |-> "none",      \* the readline interface: none, open or closed
      firstKey |-> "none",     \* the key that opened the readline interface
      settled |-> "pending",   \* the promise: pending, null or text
      resolveCalls |-> 0,      \* calls of resolve
      byTimeout |-> FALSE ]    \* the timeout handler resolved the promise

\* resolve(value) on call c: a promise keeps its first value.
ResolveCall(c, value) ==
    [ c EXCEPT !.resolveCalls = @ + 1,
               !.settled = IF @ = "pending" THEN value ELSE @ ]

ClearedTimer(c) == IF c.timer = "armed" THEN "cleared" ELSE c.timer

\* Lines 843-876, 948: promptForUserInput is called on a terminal without the
\* TUI (runSequential awaits each call before it makes the next): the timer
\* is set, stdin is put in raw mode and resumed, onData is added.
PromptCall ==
    /\ ~prompt.exited
    /\ Len(prompt.calls) < MaxPrompts
    /\ \A i \in 1..Len(prompt.calls) : prompt.calls[i].settled # "pending"
    /\ prompt' = [ prompt EXCEPT !.calls = Append(@, NewCall),
                                 !.raw = TRUE, !.flowing = TRUE ]
    /\ UNCHANGED << mgrVars, pc, opts, runs, result, iteration,
                    abortDueToRetryableFailure, task, attempt, modelToUse,
                    aiResult, errorMsg, complete, deferred, hist, branch, chat,
                    cli, script, pool, store, tui >>

\* Lines 855-868: the timer of call i fires.  Unless the call is resolved,
\* the flag is set, raw mode is left, stdin is paused and the promise is
\* resolved with null; onData stays a listener of stdin.
TimerFires(i) ==
    /\ ~prompt.exited
    /\ i \in 1..Len(prompt.calls)
    /\ prompt.calls[i].timer = "armed"
    /\ LET c == prompt.calls[i] IN
       prompt' =
         IF c.resolved
         THEN [ prompt EXCEPT !.calls[i].timer = "fired" ]
         ELSE [ prompt EXCEPT
                  !.calls[i] = [ ResolveCall(c, "null") EXCEPT
                                   !.timer = "fired", !.resolved = TRUE,
                                   !.byTimeout = TRUE ],
                  !.raw = FALSE, !.flowing = FALSE ]
    /\ UNCHANGED << mgrVars, pc, opts, runs, result, iteration,
                    abortDueToRetryableFailure, task, attempt, modelToUse,
                    aiResult, errorMsg, complete, deferred, hist, branch, chat,
                    cli, script, pool, store, tui >>

\* Lines 878-946: onData of call i runs for a key.
OnData(inp, i, key) ==
    LET c == inp.calls[i] IN
    IF key = "ctrlC"
    THEN [ inp EXCEPT !.calls[i].timer = ClearedTimer(c), !.raw = FALSE,
                      !.exited = TRUE ]
    ELSE IF key = "enter" /\ ~c.hasInput
    THEN IF c.resolved THEN inp
         ELSE [ inp EXCEPT
                  !.calls[i] = [ ResolveCall(c, "null") EXCEPT
                                   !.resolved = TRUE, !.timer = ClearedTimer(c),
                                   !.listening = FALSE ],
                  !.raw = FALSE, !.flowing = FALSE ]
    ELSE IF ~c.hasInput
    THEN [ inp EXCEPT
             !.calls[i] = [ c EXCEPT !.hasInput = TRUE, !.timer = ClearedTimer(c),
                                     !.listening = FALSE, !.session = "open",
                                     !.firstKey = key ],
             !.raw = FALSE, !.flowing = TRUE ]
    ELSE inp

\* A "data" event of stdin: the listeners attached when it is emitted run in
\* the order in which they were added, up to a process.exit().
RECURSIVE Emit(_, _, _, _)
Emit(inp, listeners, i, key) ==
    IF i > Len(inp.calls) \/ inp.exited THEN inp
    ELSE Emit(IF i \in listeners THEN OnData(inp, i, key) ELSE inp,
              listeners, i + 1, key)

\* The user presses a key while stdin is flowing and onData listens.
KeyPress(key) ==
    /\ ~prompt.exited
    /\ prompt.flowing
    /\ LET listeners == { i \in 1..Len(prompt.calls) : prompt.calls[i].listening }
       IN /\ listeners # {}
          /\ prompt' = Emit(prompt, listeners, 1, key)
    /\ UNCHANGED << mgrVars, pc, opts, runs, result, iteration,
                    abortDueToRetryableFailure, task, attempt, modelToUse,
                    aiResult, errorMsg, complete, deferred, hist, branch, chat,
                    cli, script, pool, store, tui >>

\* Lines 926-941: the line typed into the readline interface of call i is
\* handed to the callback of rl.question: the interface is closed (stdin is
\* paused), the flag is set and the promise is resolved with the trimmed
\* input, or with null when that is empty.
SessionAnswer(i, answer) ==
    /\ ~prompt.exited
    /\ i \in 1..Len(prompt.calls)
    /\ prompt.calls[i].session = "open"
    /\ LET c == prompt.calls[i]
           trimmed == IF c.firstKey = "char" \/ answer = "text"
                      THEN "text" ELSE "null"
       IN prompt' = [ prompt EXCEPT
              !.calls[i] = [ ResolveCall(c, trimmed) EXCEPT
                               !.session = "closed", !.resolved = TRUE ],
              !.flowing = FALSE ]
    /\ UNCHANGED << mgrVars, pc, opts, runs, result, iteration,
                    abortDueToRetryableFailure, task, attempt, modelToUse,
                    aiResult, errorMsg, complete, deferred, hist, branch, chat,
                    cli, script, pool, store, tui >>

InitPrompt ==
    /\ now = 1
    /\ state = InitialState
    /\ lastCall = NoCall
    /\ streak = NoStreak
    /\ RunIdle
    /\ opts \in OptionSets
    /\ opts.maxRetries = 1 /\ opts.maxIterations = 0 /\ ~opts.dryRun
    /\ ~opts.streaming /\ opts.modelOverride = NoModel
    /\ ~opts.syncIssue /\ ~opts.createPr
    /\ runs = 0

NextPrompt ==
    \/ PromptCall
    \/ \E i \in 1..MaxPrompts : TimerFires(i)
    \/ \E key \in Keys : KeyPress(key)
    \/ \E i \in 1..MaxPrompts, answer \in Answers : SessionAnswer(i, answer)

SpecPrompt == InitPrompt /\ [][NextPrompt]_vars

(***************************************************************************)
(* logStore (tui/stores/log.ts): submitInput, waitForInput, popInputQueue, *)
(* and the processChatQueue instances that drain the queue.                *)
(***************************************************************************)
SubmitKinds == { "null", "empty", "text" }

\* submitInput(text), the call being number id and its text of kind `kind`:
\* a pending resolver is called with the text and cleared; otherwise a text
\* that is neither null nor empty is appended to the queue.
SubmitInput(st, id, kind) ==
    LET s1 == [ st EXCEPT !.kinds = Append(@, kind) ] IN
    IF st.inputResolver # 0
    THEN [ s1 EXCEPT !.promises[st.inputResolver] = id, !.inputResolver = 0 ]
    ELSE IF kind = "text"
    THEN [ s1 EXCEPT !.inputQueue = Append(@, id), !.queued = Append(@, id) ]
    ELSE s1

\* waitForInput(): a new promise, whose resolver replaces inputResolver.
WaitForInput(st) ==
    [ st EXCEPT !.promises = Append(@, 0),
                !.inputResolver = Len(st.promises) + 1 ]

\* Mutant: the first entry is returned and left in the queue.
PopInputQueue_Peek(q) ==
    IF q = << >> THEN [ next |-> 0, queue |-> q ]
    ELSE [ next |-> Head(q), queue |-> q ]

\* popInputQueue(): the first entry (0 for null) and the queue afterwards.
PopInputQueue(q) ==
    IF q = << >> THEN [ next |-> 0, queue |-> q ]
    ELSE [ next |-> Head(q), queue |-> Tail(q) ]

\* Lines 728-729 / 804-805 of processChatQueue in instance d: the next
\* message is popped and, if there is one, sent to the engine.
DrainPops(st, d) ==
    LET r == PopInputQueue(st.inputQueue) IN
    IF r.next = 0
    THEN [ st EXCEPT !.drains[d] = 0 ]
    ELSE [ st EXCEPT !.inputQueue = r.queue,
                     !.drains[d] = r.next,
                     !.popped = Append(@, r.next),
                     !.sent = Append(@, << d, r.next >>) ]

\* The user (InputBox) or a caller submits an input.
CallSubmitInput(kind) ==
    /\ Len(store.kinds) < MaxSubmits
    /\ store' = SubmitInput(store, Len(store.kinds) + 1, kind)
    /\ UNCHANGED << mgrVars, pc, opts, runs, result, iteration,
                    abortDueToRetryableFailure, task, attempt, modelToUse,
                    aiResult, errorMsg, complete, deferred, hist, branch, chat,
                    cli, script, pool, prompt, tui >>

\* A caller (promptForUserInput with the TUI, waitForTuiInput) waits for input.
CallWaitForInput ==
    /\ Len(store.promises) < MaxWaits
    /\ store' = WaitForInput(store)
    /\ UNCHANGED << mgrVars, pc, opts, runs, result, iteration,
                    abortDueToRetryableFailure, task, attempt, modelToUse,
                    aiResult, errorMsg, complete, deferred, hist, branch, chat,
                    cli, script, pool, prompt, tui >>

\* A processChatQueue instance (started by the loop or by a streaming
\* progress callback) reaches its first popInputQueue with a message queued.
DrainStart(d) ==
    /\ store.drains[d] = 0
    /\ store.inputQueue # << >>
    /\ store' = DrainPops(store, d)
    /\ UNCHANGED << mgrVars, pc, opts, runs, result, iteration,
                    abortDueToRetryableFailure, task, attempt, modelToUse,
                    aiResult, errorMsg, complete, deferred, hist, branch, chat,
                    cli, script, pool, prompt, tui >>

\* The chat engine call of instance d ends (result or exception, lines
\* 779-801): the instance pops again and ends when the queue is empty.
DrainReturns(d) ==
    /\ store.drains[d] # 0
    /\ store' = DrainPops(store, d)
    /\ UNCHANGED << mgrVars, pc, opts, runs, result, iteration,
                    abortDueToRetryableFailure, task, attempt, modelToUse,
                    aiResult, errorMsg, complete, deferred, hist, branch, chat,
                    cli, script, pool, prompt, tui >>

InitStore ==
    /\ now = 1
    /\ state = InitialState
    /\ lastCall = NoCall
    /\ streak = NoStreak
    /\ RunIdle
    /\ opts \in OptionSets
    /\ opts.maxRetries = 1 /\ opts.maxIterations = 0 /\ ~opts.dryRun
    /\ ~opts.streaming /\ opts.modelOverride = NoModel
    /\ ~opts.syncIssue /\ ~opts.createPr
    /\ runs = 0

NextStore ==
    \/ \E kind \in SubmitKinds : CallSubmitInput(kind)
    \/ CallWaitForInput
    \/ \E d \in 1..MaxDrains : DrainStart(d)
    \/ \E d \in 1..MaxDrains : DrainReturns(d)

SpecStore == InitStore /\ [][NextStore]_vars

(***************************************************************************)
(* tui/index.tsx: startTui, stopTui and the renderer.                      *)
(***************************************************************************)
MaxStarts == 2

MaxStops == 2

\* tuiState's three fields.
TuiFields(st) == << st.active, st.exitResolver, st.dispose >>

\* A startTui call: its position, the number of times the resolver of its
\* promise was called, its renderer, and whether stopTui was called while its
\* render call was pending.
NewStart(position) ==
    [ pc |-> position, resolved |-> 0, renderer |-> "none", stopDuring |-> FALSE ]

\* Calling tuiState.exitResolver if it is set, then clearing it (lines 47-50
\* and 83-86).
CallExitResolver(st) ==
    IF st.exitResolver # 0
    THEN [ st EXCEPT !.calls[st.exitResolver].resolved = @ + 1,
                     !.exitResolver = 0 ]
    ELSE st

\* stopTui (lines 78-88): the stored dispose function is called and cleared,
\* the stored resolver is called and cleared, active becomes false.
StopTui(st) ==
    LET disposed == IF st.dispose # 0
                    THEN [ st EXCEPT !.calls[st.dispose].renderer = "disposed",
                                     !.dispose = 0 ]
                    ELSE st
    IN [ CallExitResolver(disposed) EXCEPT !.active = FALSE ]

\* onExit (lines 45-51), the closure handed to App.
OnExit(st) == CallExitResolver([ st EXCEPT !.active = FALSE ])

\* startTui is called (lines 15-24): with tuiState.active it returns at once,
\* otherwise it starts the dynamic imports and waits for them.
CallStartTui ==
    /\ ~tui.exited
    /\ Len(tui.calls) < MaxStarts
    /\ tui' = [ tui EXCEPT
           !.calls = Append(@, NewStart(IF tui.active THEN "noop" ELSE "import")),
           !.last = "startTui",
           !.before = TuiFields(tui) ]
    /\ UNCHANGED << mgrVars, pc, opts, runs, result, iteration,
                    abortDueToRetryableFailure, task, attempt, modelToUse,
                    aiResult, errorMsg, complete, deferred, hist, branch, chat,
                    cli, script, pool, prompt, store >>

\* The imports of call i are done (lines 25-53): without a render function the
\* call returns; otherwise active is set, the resolver of the call's promise
\* is stored and render is called and awaited.
ImportsDone(i, hasRender) ==
    /\ ~tui.exited
    /\ i \in 1..Len(tui.calls)
    /\ tui.calls[i].pc = "import"
    /\ tui' = IF hasRender
              THEN [ tui EXCEPT !.active = TRUE, !.exitResolver = i,
                                !.calls[i].pc = "render", !.last = "none" ]
              ELSE [ tui EXCEPT !.calls[i].pc = "norender", !.last = "none" ]
    /\ UNCHANGED << mgrVars, pc, opts, runs, result, iteration,
                    abortDueToRetryableFailure, task, attempt, modelToUse,
                    aiResult, errorMsg, complete, deferred, hist, branch, chat,
                    cli, script, pool, prompt, store >>

\* render of call i resolves (lines 53-64): the renderer exists and its
\* dispose function is stored.
RenderDone(i) ==
    /\ ~tui.exited
    /\ i \in 1..Len(tui.calls)
    /\ tui.calls[i].pc = "render"
    /\ tui' = [ tui EXCEPT !.calls[i].pc = "running",
                           !.calls[i].renderer = "live",
                           !.dispose = i, !.last = "none" ]
    /\ UNCHANGED << mgrVars, pc, opts, runs, result, iteration,
                    abortDueToRetryableFailure, task, attempt, modelToUse,
                    aiResult, errorMsg, complete, deferred, hist, branch, chat,
                    cli, script, pool, prompt, store >>

\* render of call i throws (lines 66-70): active is cleared and the promise
\* is rejected.
RenderThrows(i) ==
    /\ ~tui.exited
    /\ i \in 1..Len(tui.calls)
    /\ tui.calls[i].pc = "render"
    /\ tui' = [ tui EXCEPT !.calls[i].pc = "failed", !.active = FALSE,
                           !.last = "none" ]
    /\ UNCHANGED << mgrVars, pc, opts, runs, result, iteration,
                    abortDueToRetryableFailure, task, attempt, modelToUse,
                    aiResult, errorMsg, complete, deferred, hist, branch, chat,
                    cli, script, pool, prompt, store >>

\* stopTui is called (lines 78-88).
CallStopTui ==
    /\ ~tui.exited
    /\ tui.stops < MaxStops
    /\ tui' = [ StopTui(tui) EXCEPT
           !.stops = @ + 1,
           !.last = "stopTui",
           !.before = TuiFields(tui),
           !.calls = [ j \in 1..Len(tui.calls) |->
                         [ StopTui(tui).calls[j] EXCEPT
                             !.stopDuring = @ \/ tui.calls[j].pc = "render" ] ] ]
    /\ UNCHANGED << mgrVars, pc, opts, runs, result, iteration,
                    abortDueToRetryableFailure, task, attempt, modelToUse,
                    aiResult, errorMsg, complete, deferred, hist, branch, chat,
                    cli, script, pool, prompt, store >>

\* Ctrl+C in the App rendered by call i (logger.ts 1080-1085, 1095-1099):
\* the renderer is destroyed, onExit is called and the process exits.
AppCtrlC(i) ==
    /\ ~tui.exited
    /\ i \in 1..Len(tui.calls)
    /\ tui.calls[i].renderer = "live"
    /\ tui' = [ OnExit([ tui EXCEPT !.calls[i].renderer = "disposed" ])
                  EXCEPT !.exited = TRUE, !.last = "none" ]
    /\ UNCHANGED << mgrVars, pc, opts, runs, result, iteration,
                    abortDueToRetryableFailure, task, attempt, modelToUse,
                    aiResult, errorMsg, complete, deferred, hist, branch, chat,
                    cli, script, pool, prompt, store >>

InitTui ==
    /\ now = 1
    /\ state = InitialState
    /\ lastCall = NoCall
    /\ streak = NoStreak
    /\ RunIdle
    /\ opts \in OptionSets
    /\ opts.maxRetries = 1 /\ opts.maxIterations = 0 /\ ~opts.dryRun
    /\ ~opts.streaming /\ opts.modelOverride = NoModel
    /\ ~opts.syncIssue /\ ~opts.createPr
    /\ runs = 0

NextTui ==
    \/ CallStartTui
    \/ \E i \in 1..MaxStarts, hasRender \in BOOLEAN : ImportsDone(i, hasRender)
    \/ \E i \in 1..MaxStarts : RenderDone(i)
    \/ \E i \in 1..MaxStarts : RenderThrows(i)
    \/ CallStopTui
    \/ \E i \in 1..MaxStarts : AppCtrlC(i)

SpecTui == InitTui /\ [][NextTui]_vars

(***************************************************************************)
(* Scenarios and structure of runSequential.                               *)
(***************************************************************************)
\* C11: in a run over a fresh backlog with maxRetries = 2 in which every task
\* engine call returns a rate-limit failure, the run ends with tasksFailed = 1
\* and tasksCompleted = 0, and only the first task was ever dispatched: every
\* task stays unchecked.
C11_RateLimitedRun ==
    (pc = "done" /\ opts.maxRetries = 2) =>
        /\ result.tasksFailed = 1
        /\ result.tasksCompleted = 0
        /\ iteration = 1
        /\ task = 1
        /\ complete = {}
        /\ \A t \in Tasks \ { 1 } : deferred[t] = 0

\* C11 witness: the run ended after the first task used up withRetry's
\* attempts on rate-limit failures, the manager having gone to Fallback.
C11_Witness ==
    /\ pc = "done"
    /\ opts.maxRetries = 2
    /\ hist.run.origin = "withRetry"
    /\ state.inFallback
    /\ result.tasksFailed = 1
    /\ GetNextTask(complete) = 1

\* C13: with a branch per task, whenever the loop is at its head or the run
\* has returned, the base branch is checked out again, whatever the outcome of
\* the iteration was.
C13_ReturnsToBaseBranch ==
    pc \in { "loop", "done" } => branch = "base"

\* C15: with or without executeStreaming, a rate-limit failure that becomes
\* the task's AIResult has been handed to handleError before: the manager is
\* in Fallback and has recorded the time of the error.
C15_SameWithStreaming ==
    (pc = "returned" /\ ~aiResult.success /\ aiResult.error # E_EMPTY
        /\ IsRateLimitError(aiResult.error)) =>
        /\ state.inFallback
        /\ state.lastRateLimitTime # NULL
        /\ state.rateLimitCount >= 1

\* C17: the loop terminates for every engine behaviour.  In the form a finite
\* run refutes: without an iteration cap, no pass through the loop comes back
\* to the loop head with the task still unchecked and its deferral record as
\* it was at dispatch (such a pass can repeat for ever).
C17_EveryPassProgresses ==
    (pc = "loop" /\ hist.run.branch # "none" /\ opts.maxIterations = 0) =>
        \/ task \in complete
        \/ deferred[task] # hist.run.deferredBefore

\* C18: while an attempt's engine call is in flight, the model it requested is
\* the one getCurrentModel() gave at the start of that attempt (the user's
\* override if there is one): the fallback id iff the manager is in Fallback.
C18_ModelResolvedPerAttempt ==
    pc = "inflight" =>
        modelToUse = IF opts.modelOverride # NoModel THEN opts.modelOverride
                     ELSE IF state.inFallback THEN Fallback ELSE Primary

\* C18 witness: the second attempt of the first task of a run requests the
\* fallback model (the first attempt ran on a fresh manager, in Primary).
C18_Witness ==
    /\ pc = "inflight"
    /\ attempt = 2
    /\ iteration = 1
    /\ opts.modelOverride = NoModel
    /\ modelToUse = Fallback

\* C19: a rate-limit failure of a task's engine call, received in Primary with
\* retries left and no model override, never becomes the task's AIResult: it
\* is handed to handleError and thrown again; and a later attempt made while
\* the fallback period lasts requests the fallback model.
C19_RateLimitRetriesOnFallback ==
    /\ ~( /\ pc = "returned"
          /\ ~aiResult.success
          /\ aiResult.error # E_EMPTY
          /\ IsRateLimitError(aiResult.error)
          /\ opts.modelOverride = NoModel
          /\ ~state.inFallback
          /\ attempt < opts.maxRetries )
    /\ (pc = "inflight" /\ attempt >= 2 /\ opts.modelOverride = NoModel
            /\ state.inFallback) => modelToUse = Fallback

EngineCallsInFlight ==
    (IF pc \in { "inflight", "userInflight" } THEN 1 ELSE 0)
        + (IF chat.drain THEN 1 ELSE 0) + chat.bg

C20_FeedbackFolded ==
    pc = "done" => chat.feedback = 0

\* C16: once runSequential has returned its result and the process has
\* exited, the exit code is nonzero exactly if the result has tasksFailed > 0.
C16_ExitCode ==
    (cli.pc = "exited" /\ pc = "done") =>
        (cli.exitCode # 0 <=> result.tasksFailed > 0)

(***************************************************************************)
(* The ExecutionResult and the iteration cap.                              *)
(***************************************************************************)
\* C21: the fields of the run's ExecutionResult start at 0 (a call of
\* runSequential makes a new result) and no step of the run decreases any of
\* them.
C21_ResultMonotone ==
    [][ IF pc \in { "idle", "done" }
        THEN result' = ZeroResult \/ result' = result
        ELSE /\ result'.tasksCompleted >= result.tasksCompleted
             /\ result'.tasksFailed >= result.tasksFailed
             /\ result'.totalInputTokens >= result.totalInputTokens
             /\ result'.totalOutputTokens >= result.totalOutputTokens ]_vars

\* C21 witness: a run that has added to each field: two tasks completed with
\* different token counts, a follow-up's tokens, and a failed task.
C21_Witness ==
    /\ result.tasksCompleted = 2
    /\ result.tasksFailed = 1
    /\ hist.run.okIn = 140
    /\ chat.fuIn = 20
    /\ result.totalInputTokens = 160

\* C22: with maxIterations = N > 0 a run starts at most N tasks: the loop
\* counter never exceeds N, no task is being worked on beyond it, and neither
\* tasksCompleted nor tasksFailed exceeds the number of tasks started.
C22_IterationCapHolds ==
    opts.maxIterations > 0 =>
        /\ iteration <= opts.maxIterations
        /\ result.tasksCompleted <= iteration
        /\ result.tasksFailed <= iteration
        /\ (pc = "loop" /\ iteration = opts.maxIterations) =>
               ~ENABLED LoopDispatch /\ ~ENABLED LoopNoTask /\ ~ENABLED LoopDryRun

\* C22 witness: a run with maxIterations = 2 that ended at the cap after two
\* tasks, with a task still unchecked.
C22_Witness ==
    /\ pc = "done"
    /\ opts.maxIterations = 2
    /\ iteration = 2
    /\ ~abortDueToRetryableFailure
    /\ hist.run.branch = "none"
    /\ GetNextTask(complete) # NoTask

(***************************************************************************)
(* ralphy-clean-start.sh.                                                  *)
(***************************************************************************)
\* C23: the script repeats until all tasks are complete: it never ends while
\* unchecked tasks remain, whatever the exit code of the ralphy run was.
C23_RepeatsUntilComplete ==
    script.pc = "exited" => script.unchecked = 0

(***************************************************************************)
(* runParallel.                                                            *)
(***************************************************************************)
\* C24: no task of a later parallel group is dispatched while a task of an
\* earlier group is unresolved (not yet succeeded, failed or abandoned).
C24_GroupOrdering ==
    \A t \in Tasks, u \in Tasks :
        (pool.group[u] < pool.group[t] /\ pool.st[t] # "unstarted")
            => pool.st[u] \in Resolved

\* C24 witness: a task of group 2 is running after both tasks of group 1
\* have been resolved, one of them by a failure.
C24_Witness ==
    /\ pool.pc = "group" /\ pool.cur = 2
    /\ pool.group = [ t \in Tasks |-> IF t = 3 THEN 1 ELSE IF t = 1 THEN 1 ELSE 2 ]
    /\ pool.st[2] = "running"
    /\ pool.st[1] = "failed" /\ pool.st[3] = "succeeded"

C26_MergeOrder ==
    /\ Cardinality(pool.merging) <= 1
    /\ \A i \in 1..Len(pool.mergeLog), j \in 1..Len(pool.mergeLog) :
         i < j => /\ pool.mergeLog[i] \in SeqRange(pool.completed)
                  /\ pool.mergeLog[j] \in SeqRange(pool.completed)
                  /\ PosIn(pool.completed, pool.mergeLog[i])
                       < PosIn(pool.completed, pool.mergeLog[j])
    /\ (pool.pc = "done" /\ ~pool.skipMerge) => pool.mergeLog = pool.completed

\* C26 witness: task 1 was dispatched before task 2 and completed after it;
\* the branch of task 2 has been merged and that of task 1 is being merged.
C26_Witness ==
    /\ pool.dispatched = << 1, 2 >>
    /\ pool.completed = << 2, 1 >>
    /\ pool.mergeLog = << 2, 1 >>
    /\ pool.merging = { 1 }

(***************************************************************************)
(* Classification order of runSequential.                                  *)
(***************************************************************************)
\* C27: once the failure of a task has been handled and its error message
\* satisfies isFatalError, the run has returned or is about to end without
\* another task, also when the message satisfies isRetryableError as well.
C27_FatalNotShadowed ==
    LET msg == IF hist.run.origin = "result"
               THEN IF aiResult.error = E_EMPTY THEN E_UNKNOWN ELSE aiResult.error
               ELSE errorMsg
    IN (pc \in { "endIter", "done" } /\ hist.run.branch \in FailureBranches
            /\ IsFatalError(msg))
         => (pc = "done" \/ abortDueToRetryableFailure)

(***************************************************************************)
(* promptForUserInput.                                                     *)
(***************************************************************************)
\* C28: a prompt whose promise was resolved by the timeout has the value
\* null, resolve was called for it once, and no readline session was started
\* for it by a later key.
C28_TimeoutIsFinal ==
    \A i \in 1..Len(prompt.calls) :
        prompt.calls[i].byTimeout =>
            /\ prompt.calls[i].settled = "null"
            /\ prompt.calls[i].resolveCalls = 1
            /\ prompt.calls[i].session = "none"

(***************************************************************************)
(* Invariants of the FallbackState.                                        *)
(***************************************************************************)
\* C29: after any sequence of calls inFallback is true exactly if
\* fallbackStartTime is not null, rateLimitCount is not negative, and it is
\* 0 right after a call that went back to Primary.
C29_StateInvariant ==
    /\ state.inFallback <=> state.fallbackStartTime # NULL
    /\ state.rateLimitCount >= 0
    /\ (lastCall.op # "none" /\ lastCall.pre.inFallback /\ ~state.inFallback)
           => state.rateLimitCount = 0

\* C29 witness: getStatus, called once the interval had elapsed after several
\* rate-limit errors, went back to Primary.
C29_Witness ==
    /\ lastCall.op = "getStatus"
    /\ lastCall.pre.inFallback
    /\ lastCall.pre.rateLimitCount >= 2
    /\ lastCall.retModel = Primary
    /\ ~state.inFallback
    /\ state.rateLimitCount = 0

\* C30: fallbackStartTime is set only by the step from Primary to Fallback,
\* to the time of that step, and is not moved while the manager stays in
\* Fallback; so a getCurrentModel or getStatus call leaves the manager in
\* Fallback only if less than retryInterval has passed since that step.
C30_TimerStampedOnce ==
    /\ [][ /\ (state.inFallback /\ state'.inFallback)
                => state'.fallbackStartTime = state.fallbackStartTime
           /\ (~state.inFallback /\ state'.inFallback)
                => state'.fallbackStartTime = now
           /\ ~state'.inFallback => state'.fallbackStartTime = NULL ]_vars
    /\ []((lastCall.op \in { "getCurrentModel", "getStatus" } /\ state.inFallback)
            => lastCall.at - state.fallbackStartTime < RetryInterval)

\* C30 witness: after the transition and two more rate-limit errors, the last
\* of them later than the transition, getCurrentModel called retryInterval
\* after the transition went back to Primary.
C30_Witness ==
    /\ lastCall.op = "getCurrentModel"
    /\ lastCall.pre.inFallback
    /\ lastCall.pre.rateLimitCount >= 3
    /\ lastCall.pre.lastRateLimitTime > lastCall.pre.fallbackStartTime
    /\ Elapsed(lastCall) = RetryInterval
    /\ lastCall.retModel = Primary
    /\ ~state.inFallback

(***************************************************************************)
(* The model of an invocation.                                             *)
(***************************************************************************)
\* C31: after a successful task, recordSuccess was called with the model
\* that was passed to the engine for the successful invocation.
C31_RecordsModelUsed ==
    (pc = "sync" /\ hist.run.branch = "success") => hist.run.recorded = modelToUse

\* C32: with a modelOverride every task engine invocation requests that
\* model, on every attempt and in Primary as in Fallback.
C32_OverrideOnEveryAttempt ==
    (opts.modelOverride # NoModel /\ pc \in { "inflight", "returned" })
        => modelToUse = opts.modelOverride

\* C32 witness: with an override, a second attempt is in flight after
\* handleError has taken the manager to Fallback and asked for a retry.
C32_Witness ==
    /\ opts.modelOverride = OtherModel
    /\ pc = "inflight"
    /\ attempt >= 2
    /\ hist.run.engineFailed
    /\ state.inFallback
    /\ modelToUse = OtherModel

(***************************************************************************)
(* Accounting of the iterations.                                           *)
(***************************************************************************)
\* C33: outside a dry run every finished task iteration has added one to
\* exactly one of tasksCompleted and tasksFailed, so between iterations and
\* at the end of the run their sum is the number of iterations.
C33_OneCountPerIteration ==
    (~opts.dryRun /\ pc \in { "loop", "done" })
        => result.tasksCompleted + result.tasksFailed = iteration

C36_ModelMatchesArgs ==
    (script.pc = "ralphy" /\ script.engine = "opencode")
        => script.argsModel = script.model

C38_DryRunFrame ==
    opts.dryRun =>
        /\ pc \in { "idle", "loop", "endIter", "done", "chat" }
        /\ result = ZeroResult
        /\ hist.run.okCount = 0
        /\ ~hist.run.engineFailed
        /\ complete = {}
        /\ \A t \in Tasks : hist.all.markCalls[t] = 0 /\ deferred[t] = 0

\* C38 witness: a dry run that skipped tasks has returned.
C38_Witness ==
    /\ opts.dryRun
    /\ pc = "done"
    /\ iteration >= 2
    /\ hist.run.prevBranch = "dryRun"
    /\ result = ZeroResult

(***************************************************************************)
(* runLoop: the task source is flushed before the process ends.            *)
(***************************************************************************)
\* C39: when the process has ended (process.exit was called or runLoop
\* returned) after the run marked a task complete, taskSource.flush() has
\* been called.
C39_FlushedBeforeExit ==
    (cli.pc \in { "exited", "returned" }
        /\ \E t \in Tasks : hist.all.markCalls[t] > 0)
            => cli.flushed

(***************************************************************************)
(* The TUI's lifecycle.                                                    *)
(***************************************************************************)
\* C40: a startTui call made while tuiState.active is true changes nothing
\* and starts nothing; right after a stopTui call, active is false and
\* exitResolver and dispose are null; the resolver of a startTui promise is
\* called at most once; and a startTui call during whose pending render
\* stopTui was called has no live renderer.
C40_TuiLifecycle ==
    /\ (tui.last = "startTui" /\ tui.before[1])
           => /\ TuiFields(tui) = tui.before
              /\ tui.calls[Len(tui.calls)].pc = "noop"
    /\ tui.last = "stopTui"
           => TuiFields(tui) = << FALSE, 0, 0 >>
    /\ \A i \in 1..Len(tui.calls) :
           /\ tui.calls[i].resolved <= 1
           /\ tui.calls[i].pc = "noop" => tui.calls[i].renderer = "none"
           /\ tui.calls[i].stopDuring => tui.calls[i].renderer # "live"

====
